---------------------------- MODULE Spec2Model ----------------------------
(***************************************************************************)
(* A model of teamtalk.py: the command/event correlation helpers of        *)
(* teamtalk/_utils.py (_waitForEvent, _waitForCmdSuccess, _waitForCmd),    *)
(* the event classification chain of TeamTalkInstance._process_events and  *)
(* the handler registry / dispatch / task scheduling of TeamTalkBot.       *)
(*                                                                         *)
(* Time is a discrete clock `now` (one unit stands for a fixed number of   *)
(* milliseconds).  Python code between two blocking calls takes no time;   *)
(* time passes only while the program is blocked in the native             *)
(* getMessage call, or idle.  A blocked getMessage returns as soon as it   *)
(* can: at once when the native queue holds an event, at its deadline      *)
(* otherwise.                                                              *)
(***************************************************************************)
EXTENDS Integers, Sequences, FiniteSets, TLC

\* ------------------------------------------------------------------ bounds
MaxTime == 5
MaxQueue == 1
MaxTimeout == 2

\* ------------------------------------------------------- native events
\* sdk.TTMessage: nClientEvent (kind), nSource (src), the one payload detail
\* the wrapper branches on (val: clienterrormsg.nErrorNo of a command error,
\* textmessage.nMsgType of a text message, user.uUserState of a state
\* change, by name), the user id of a user payload (uid), and n, the position of the
\* event in the order the native library produced the events (0 when the
\* order of arrival is not followed).
CompletionKinds == {"CMD_SUCCESS", "CMD_ERROR"}

CmdIds == {1, 2}

TTMessage == [kind |-> "NONE", src |-> 0, val |-> "", uid |-> 0, n |-> 0]

Ev(k, s, v) == [kind |-> k, src |-> s, val |-> v, uid |-> 0, n |-> 0]

\* msg.clienterrormsg of a command-error event
ClientErrorMsg(m) ==
  [kind |-> "ClientErrorMsg", src |-> 0, val |-> m.val, uid |-> 0, n |-> 0]

SuccessEvents == {Ev("CMD_SUCCESS", i, "") : i \in CmdIds}

ErrorEvents == {Ev("CMD_ERROR", i, "CMDERR_NOT_AUTHORIZED") : i \in CmdIds}

\* the events the native library queues while a wait is in progress
WaitEvents == SuccessEvents \cup ErrorEvents
                \cup {Ev("CMD_USER_JOINED", 0, ""), Ev("CON_SUCCESS", 0, "")}

IsCompletion(m) == m.kind \in CompletionKinds

Timeouts == 1..MaxTimeout

\* the wait getMessage() uses when the caller passes none: block until the
\* next event
DefaultWait == -1

VARIABLES
  queue,     \* the native event queue of the connection
  now,       \* the clock, timestamp()
  wfn,       \* the wait in progress: "none", "waitForEvent", ...
  wpc,       \* its position: "idle", "first", "loop", "cmd", "done"
  wevent,    \* _waitForEvent's awaited event kind
  wcmdid,    \* the correlation id waited for
  wtimeout,  \* the timeout argument
  wend,      \* the local `end`
  wpoll,     \* deadline of the getMessage call in progress (DefaultWait: none)
  wmsg,      \* the local `msg`: the event read last
  wret,      \* the returned pair (result, msg)
  wstart,    \* history: the time of the call
  wfirst,    \* history: first completion event with the awaited id read
  wlost,     \* history: kinds of non-completion events the wait consumed
  op,        \* the command-issuing operation in progress, or "none"
  opres,     \* what the native issuing call returned (0: not issued)
  opout,     \* how the operation ended: "" while it runs, else what it
             \* raised, or "None" / "True" / "False" for what it returned
  oprights,  \* the rights of the bot's account (uUserRights)
  opadmin,   \* whether the account is of USERTYPE_ADMIN
  opisop,    \* the answer of sdk._IsChannelOperator
  attrs,     \* the bot's attributes that hold handlers, by name
  reglog,    \* history: the calls of TeamTalkBot.event, in order
  regout,    \* how the last call of event ended: "", "ok", "TypeError"
  ready,     \* the event loop's queue of runnable tasks, first in first out
  created,   \* history: the handler tasks _schedule_event created
  started,   \* history: the handler tasks that began to run
  raised,    \* history: the handler tasks whose coroutine raised
  errors,    \* the calls on_error received
  mainpc,    \* _start: "start", "run", "sleep", "queued"
  running,   \* the handler task that holds the thread inside a command
  nextn,     \* history: number of events the native library queued
  plast,     \* the last run of _process_events: msg, dispatch, side effect
  user_accounts,  \* self.user_accounts (arrival numbers of the results)
  banned_users,   \* self.banned_users
  conn,      \* the native connection: "open", "logged_out",
             \* "disconnected", "closed" (handle released)
  teardown,  \* history: how teardown began, and the numbers of handler
             \* tasks created and started by then
  queue2,    \* the native event queue of a second connection of the bot
  since2,    \* history: the time since when queue2 holds an event
  calls,     \* the calls of list_user_accounts / list_banned_users
  origin,    \* history: the enumeration that produced result event n
  connected, \* self.connected
  logged_in, \* self.logged_in
  joined,    \* the channel ids login passed to doJoinChannelByID, in order
  cdisp,     \* history: the events connect and login dispatched, in order
  join_channel_id,  \* self.server_info.join_channel_id
  teamtalks, \* self.teamtalks: the flags of each instance when it was appended
  blocks,    \* Streamer.blocks
  current_data,     \* Streamer.current_data
  fed,       \* history: the bytes passed to feed, in order
  enq,       \* history: the blocks feed put on Streamer.blocks, in order
  inserted,  \* history: the blocks passed to _InsertAudioBlock, in order
  do_stream_pc,     \* _do_stream: "check", "slice", "store"
  do_stream_rest,   \* _do_stream: the value of self.blocks[1:] not yet stored
  audio_streamers,  \* _audio_streamers: its keys, Channel objects; the Streamer
                    \* of a key is written as the key
  channel_objs,     \* the Channel objects made: the channel id of each
  got,       \* history: the (object, Streamer) of each get_streamer_for_channel
  timers,    \* _do_after: the threads waiting, the message of each
  sent,      \* history: the messages passed to doTextMessage, in order
  gattr,     \* _get_tt_obj_attribute: the argument attr, a sequence of
             \* characters
  gobj,      \* the fields that exist on the argument obj
  gres,      \* what the call returned or raised
  stream_pc, \* Streamer.stream: the caller's position, "idle", "stop",
             \* "start"
  current_streamer_running,  \* self._current_streamer_running
  current_streamer_thread,   \* self._current_streamer_thread (0: None)
  thread_pc, \* the _stream threads: "none", "test", "feed", "done"
  refed,     \* history: the threads that passed the test of their loop
             \* after the call that replaced them had returned
  current_input_device_id,   \* self._current_input_device_id
  open_device,               \* the input device the native library holds
                             \* open (-1: none)
  devcall    \* the last call of set_input_device: its inputs, the state
             \* before it and its result

wvars == <<wfn, wpc, wevent, wcmdid, wtimeout, wend, wpoll, wmsg, wret,
           wstart, wfirst, wlost>>

ovars == <<op, opres, opout, oprights, opadmin, opisop>>

bvars == <<attrs, reglog, regout, ready, created, started, raised, errors,
           mainpc, running, nextn, plast, user_accounts, banned_users>>

tvars == <<conn, teardown>>

mvars == <<queue2, since2>>

evars == <<calls, origin>>

cvars == <<connected, logged_in, joined, cdisp, join_channel_id, teamtalks>>

avars == <<gattr, gobj, gres>>

svars == <<stream_pc, current_streamer_running, current_streamer_thread,
           thread_pc, refed>>

dvars == <<current_input_device_id, open_device, devcall>>

x2vars == <<cvars, avars, svars, dvars>>

fvars == <<blocks, current_data, fed, enq, inserted, do_stream_pc,
           do_stream_rest>>

rvars == <<audio_streamers, channel_objs, got>>

qvars == <<timers, sent>>

x3vars == <<fvars, rvars, qvars>>

xvars == <<tvars, mvars, evars, x2vars, x3vars>>

vars == <<queue, now, wvars, ovars, bvars, xvars>>

NoRet == [ok |-> FALSE, val |-> Ev("unset", 0, "")]

\* ---------------------------------------------------- native getMessage
\* ttclient.getMessage(wait) blocks until an event is queued or `wait` has
\* elapsed; with no event it returns an empty TTMessage (CLIENTEVENT_NONE).
CanReturn(deadline) ==
  \/ queue # << >>
  \/ deadline # DefaultWait /\ now >= deadline

Got == IF queue # << >> THEN Head(queue) ELSE TTMessage

Rest == IF queue # << >> THEN Tail(queue) ELSE queue

Blocked == wpc \in {"first", "loop", "cmd"}

\* ------------------------------------------------------------ the waits
Return(ok, val) ==
  /\ wpc' = "done"
  /\ wret' = [ok |-> ok, val |-> val]
  /\ wpoll' = 0

InitWait ==
  /\ wfn = "none" /\ wpc = "idle" /\ wevent = "NONE" /\ wcmdid = 0
  /\ wtimeout = 0 /\ wend = 0 /\ wpoll = 0 /\ wmsg = TTMessage
  /\ wret = NoRet /\ wstart = 0 /\ wfirst = TTMessage /\ wlost = {}

Frame(fn, event, cmdid, timeout) ==
  /\ wfn' = fn /\ wevent' = event /\ wcmdid' = cmdid /\ wtimeout' = timeout
  /\ wmsg' = TTMessage /\ wret' = NoRet /\ wstart' = now
  /\ wfirst' = TTMessage /\ wlost' = {}

\* _waitForEvent: msg = ttclient.getMessage(timeout)
EnterWaitForEvent ==
  /\ wpc' = "first"
  /\ wpoll' = now + wtimeout'
  /\ wend' = 0

\* what the wait consumed and dropped
Lost(m) == IF m.kind \in CompletionKinds \cup {"NONE"} THEN wlost
           ELSE wlost \cup {m.kind}

\* a _waitForCmdSuccess that ends on a command error carrying its id
WfeTestErrorEnds(m, end) ==
  IF wfn = "waitForCmdSuccess" /\ m.kind = "CMD_ERROR" /\ m.src = wcmdid
  THEN Return(FALSE, ClientErrorMsg(m)) /\ wlost' = wlost
  ELSE IF m.kind # wevent
  THEN IF now >= end
       THEN Return(FALSE, TTMessage) /\ wlost' = Lost(m)
       ELSE /\ wpc' = "loop"
            /\ wpoll' = now + wtimeout
            /\ wret' = wret
            /\ wlost' = Lost(m)
  ELSE IF wfn = "waitForCmdSuccess" /\ m.src # wcmdid
       THEN /\ wpc' = "first"
            /\ wpoll' = now + wtimeout
            /\ wret' = wret
            /\ wlost' = wlost
       ELSE Return(TRUE, m) /\ wlost' = wlost

\* while msg.nClientEvent != event: if timestamp() >= end: return False ...
\* and the return into _waitForCmdSuccess's loop
WfeTest(m, end) ==
  IF m.kind # wevent
  THEN IF now >= end
       THEN Return(FALSE, TTMessage) /\ wlost' = Lost(m)
       ELSE /\ wpc' = "loop"
            /\ wpoll' = now + wtimeout
            /\ wret' = wret
            /\ wlost' = Lost(m)
  ELSE IF wfn = "waitForCmdSuccess" /\ m.src # wcmdid
       THEN /\ wpc' = "first"
            /\ wpoll' = now + wtimeout
            /\ wret' = wret
            /\ wlost' = wlost
       ELSE Return(TRUE, m) /\ wlost' = wlost

WfeFirst ==
  /\ wpc = "first"
  /\ CanReturn(wpoll)
  /\ wmsg' = Got
  /\ queue' = Rest
  /\ wend' = now + wtimeout
  /\ WfeTest(wmsg', wend')
  /\ UNCHANGED <<xvars, now, wfn, wevent, wcmdid, wtimeout, wstart, wfirst, ovars, bvars>>

WfeLoop ==
  /\ wpc = "loop"
  /\ CanReturn(wpoll)
  /\ wmsg' = Got
  /\ queue' = Rest
  /\ WfeTest(wmsg', wend)
  /\ UNCHANGED <<xvars, now, wfn, wevent, wcmdid, wtimeout, wend, wstart, wfirst,
                 ovars, bvars>>

\* _waitForCmd without the nSource comparison on a command success
WfcTestAnySuccess(m) ==
  IF m.kind = "CMD_ERROR" /\ m.src = wcmdid
  THEN Return(FALSE, ClientErrorMsg(m))
  ELSE IF m.kind = "CMD_SUCCESS"
       THEN Return(TRUE, m)
       ELSE IF now >= wend
            THEN Return(FALSE, TTMessage)
            ELSE /\ wpc' = "cmd"
                 /\ wpoll' = DefaultWait
                 /\ wret' = wret

\* one iteration of _waitForCmd's loop on the event just read
WfcTest(m) ==
  IF m.kind = "CMD_ERROR" /\ m.src = wcmdid
  THEN Return(FALSE, ClientErrorMsg(m))
  ELSE IF m.kind = "CMD_SUCCESS" /\ m.src = wcmdid
       THEN Return(TRUE, m)
       ELSE IF now >= wend
            THEN Return(FALSE, TTMessage)
            ELSE /\ wpc' = "cmd"
                 /\ wpoll' = DefaultWait
                 /\ wret' = wret

WfcPoll ==
  /\ wpc = "cmd"
  /\ CanReturn(wpoll)
  /\ wmsg' = Got
  /\ queue' = Rest
  /\ WfcTest(wmsg')
  /\ wfirst' = IF wfirst = TTMessage /\ IsCompletion(wmsg') /\ wmsg'.src = wcmdid
               THEN wmsg' ELSE wfirst
  /\ wlost' = Lost(wmsg')
  /\ UNCHANGED <<xvars, now, wfn, wevent, wcmdid, wtimeout, wend, wstart, ovars, bvars>>

\* ------------------------------------------------------------ callers
CallWaitForEvent(event, timeout) ==
  /\ wpc = "idle"
  /\ Frame("waitForEvent", event, 0, timeout)
  /\ EnterWaitForEvent
  /\ UNCHANGED <<xvars, queue, now, ovars, bvars>>

CallWaitForCmdSuccess(cmdid, timeout) ==
  /\ wpc = "idle"
  /\ Frame("waitForCmdSuccess", "CMD_SUCCESS", cmdid, timeout)
  /\ EnterWaitForEvent
  /\ UNCHANGED <<xvars, queue, now, ovars, bvars>>

CallWaitForCmd(cmdid, timeout) ==
  /\ wpc = "idle"
  /\ Frame("waitForCmd", "NONE", cmdid, timeout)
  /\ wend' = now + timeout
  /\ wpoll' = DefaultWait
  /\ wpc' = "cmd"
  /\ UNCHANGED <<xvars, queue, now, ovars, bvars>>

\* the frame of a wait that returned is gone
DropFrame ==
  /\ wfn' = "none" /\ wpc' = "idle" /\ wevent' = "NONE" /\ wcmdid' = 0
  /\ wtimeout' = 0 /\ wend' = 0 /\ wpoll' = 0 /\ wmsg' = TTMessage
  /\ wret' = NoRet /\ wstart' = 0 /\ wfirst' = TTMessage /\ wlost' = {}

\* a direct caller takes the returned pair
WaitReturned ==
  /\ wpc = "done"
  /\ op = "none"
  /\ DropFrame
  /\ UNCHANGED <<xvars, queue, now, ovars, bvars>>

\* -------------------------------------------------------- environment
\* the native library queues an event
Arrive(e) ==
  /\ Len(queue) < MaxQueue
  /\ opout = ""
  /\ queue' = Append(queue, e)
  /\ UNCHANGED <<xvars, now, wvars, ovars, bvars>>

\* time passes, unless a blocked getMessage can return or a wait is
\* returning to its caller
Tick ==
  /\ now < MaxTime
  /\ ~(Blocked /\ CanReturn(wpoll))
  /\ wpc # "done"
  /\ opout = ""
  /\ now' = now + 1
  /\ UNCHANGED <<xvars, queue, wvars, ovars, bvars>>

\* ------------------------------------------------- the bot's own state
\* the events the native library queues in a run of the bot
MaxEvents == 2

\* the calls of TeamTalkBot.event in a run
MaxRegs == 2

\* the names dispatch() is called with, and the attribute each one reads:
\* method = "on_" + event
MethodOf ==
  [ready |-> "on_ready", user_join |-> "on_user_join",
   user_left |-> "on_user_left", message |-> "on_message",
   user_login |-> "on_user_login", user_logout |-> "on_user_logout",
   user_update |-> "on_user_update", channel_new |-> "on_channel_new",
   channel_update |-> "on_channel_update",
   channel_delete |-> "on_channel_delete",
   server_update |-> "on_server_update",
   server_statistics |-> "on_server_statistics",
   file_new |-> "on_file_new", file_delete |-> "on_file_delete",
   my_kicked_from_channel |-> "on_my_kicked_from_channel",
   my_connection_lost |-> "on_my_connection_lost",
   my_connect |-> "on_my_connect", my_login |-> "on_my_login",
   my_logout |-> "on_my_logout", my_disconnect |-> "on_my_disconnect"]

DomainEvents == DOMAIN MethodOf

HandlerNames == {MethodOf[k] : k \in DomainEvents}

\* the attribute names the model follows: the handlers, the error hook and
\* a name no event reads
AttrNames == HandlerNames \cup {"on_error", "helper"}

\* what is passed to event(): coroutine functions, named after what their
\* body does, and a plain function
Coroutines ==
  {"h_ok", "h_raise", "h_cmd", "h_list_accounts", "h_list_bans"}

Callables == Coroutines \cup {"f_plain"}

iscoroutinefunction(coro) == coro \in Coroutines

\* TeamTalkBot defines on_error itself; no other on_* attribute exists
\* until event() sets it
InitAttrs ==
  [a \in AttrNames |-> IF a = "on_error" THEN "default_on_error" ELSE "unset"]

\* a task of the event loop: the handler invocation _run_event(coro,
\* event_name, *args), with the number of event() calls made before it
NoTask == [name |-> "", coro |-> "", args |-> TTMessage, regs |-> 0]

MainTask == [name |-> "_start", coro |-> "_start", args |-> TTMessage,
             regs |-> 0]

NoRun == [msg |-> TTMessage, disp |-> "", side |-> ""]

\* no teardown has begun
NoTeardown == [how |-> "", created |-> 0, started |-> 0]

InitBot ==
  /\ attrs = InitAttrs /\ reglog = << >> /\ regout = ""
  /\ ready = << >> /\ created = << >> /\ started = << >>
  /\ raised = << >> /\ errors = << >>
  /\ mainpc = "start" /\ running = NoTask /\ nextn = 0
  /\ plast = NoRun /\ user_accounts = << >> /\ banned_users = << >>
  /\ conn = "open" /\ teardown = NoTeardown
  /\ queue2 = << >> /\ since2 = 0
  /\ calls = << >> /\ origin = {}

\* TeamTalkInstance.__init__: not connected, not logged in
InitConnection ==
  /\ connected = FALSE /\ logged_in = FALSE
  /\ joined = << >> /\ cdisp = << >>
  /\ join_channel_id = -1
  /\ teamtalks = << >>

\* no call of _get_tt_obj_attribute
NoResult == [kind |-> "none", field |-> << >>]

InitGet == gattr = << >> /\ gobj = {} /\ gres = NoResult

\* the streams a Streamer is asked for
MaxStreams == 3

\* Streamer.__init__: no _stream thread, the flag lowered, no block, no
\* data, _do_stream started; the module's _audio_streamers = {}
InitStreamer ==
  /\ stream_pc = "idle"
  /\ current_streamer_running = FALSE
  /\ current_streamer_thread = 0
  /\ thread_pc = [t \in 1..MaxStreams |-> "none"]
  /\ refed = {}
  /\ blocks = << >> /\ current_data = << >>
  /\ fed = << >> /\ enq = << >> /\ inserted = << >>
  /\ do_stream_pc = "check" /\ do_stream_rest = << >>
  /\ audio_streamers = {} /\ channel_objs = << >> /\ got = << >>

\* an argument of set_input_device: its type, and its value as a string or
\* as a number
DevArg(t, str, int) == [type |-> t, s |-> str, v |-> int]

\* getDefaultSoundDevices() was not called
NotAsked == [kind |-> "", first |-> 0]

NoDevCall == [arg |-> DevArg("", "", 0), defaults |-> NotAsked,
              target |-> -1, id_before |-> -1, open_before |-> -1,
              inited |-> FALSE, result |-> ""]

\* TeamTalkInstance.__init__: self._current_input_device_id = -1
InitDevices ==
  /\ current_input_device_id = -1 /\ open_device = -1
  /\ devcall = NoDevCall

\* no message handed to _send_message
InitSend == timers = {} /\ sent = << >>

\* ------------------------------------------------ the waits on their own
InitOps ==
  /\ op = "none" /\ opres = 0 /\ opout = ""
  /\ oprights = {} /\ opadmin = FALSE /\ opisop = FALSE

InitW ==
  /\ queue = << >> /\ now = 0 /\ InitWait /\ InitOps /\ InitBot
  /\ InitConnection /\ InitGet /\ InitStreamer /\ InitDevices /\ InitSend

NextW ==
  \/ \E e \in {"CON_SUCCESS"}, t \in Timeouts : CallWaitForEvent(e, t)
  \/ \E i \in CmdIds, t \in Timeouts : CallWaitForCmdSuccess(i, t)
  \/ \E i \in CmdIds, t \in Timeouts : CallWaitForCmd(i, t)
  \/ WfeFirst
  \/ WfeLoop
  \/ WfcPoll
  \/ WaitReturned
  \/ \E e \in WaitEvents : Arrive(e)
  \/ Tick

SpecW == InitW /\ [][NextW]_vars

\* ----------------------------------------- command-issuing operations
\* the timeout the operations pass to _waitForCmd (2000 ms; the clock
\* counts in units of 1000 ms)
CmdTimeout == 2

Permissions == {"MODIFY_CHANNELS", "KICK_USERS", "KICK_USERS_FROM_CHANNEL",
                "BAN_USERS", "MOVE_USERS"}

\* the operations that end in _waitForCmd
WaitingOps == {"create_channel", "delete_channel", "make_channel_operator",
               "remove_channel_operator", "create_user_account",
               "delete_user_account"}

\* kick_user(user, 0) and kick_user(user, channel) take different branches
DoCmdOps == {"kick_user_server", "kick_user_channel", "ban_user", "move_user"}

CommandOps == WaitingOps \cup DoCmdOps \cup {"Channel.update"}

\* what a native issuing call returns: a correlation id, or a negative
\* number
NativeResults == {-2, -1} \cup CmdIds

ErrorCodes == {"CMDERR_NOT_AUTHORIZED", "CMDERR_CHANNEL_NOT_FOUND",
               "CMDERR_MAX_CHANNELS_EXCEEDED"}

OpsEvents == SuccessEvents
               \cup {Ev("CMD_ERROR", i, c) : i \in CmdIds, c \in ErrorCodes}
               \cup {Ev("CMD_USER_JOINED", 0, "")}

has_permission(rights, admin, permission) ==
  admin \/ permission \in rights

\* _do_cmd up to the native call: "ok" or what it raises
DoCmdCheck(rights, admin) ==
  IF ~has_permission(rights, admin, "KICK_USERS") THEN "PermissionError"
  ELSE "ok"

\* what an operation does before it issues its native call: "ok" when the
\* call is issued, else the exception raised
BeforeIssue(o, rights, admin, isop) ==
  CASE o \in {"create_channel", "delete_channel"} ->
         IF ~has_permission(rights, admin, "MODIFY_CHANNELS")
         THEN "PermissionError" ELSE "ok"
    [] o \in {"make_channel_operator", "remove_channel_operator",
              "create_user_account", "delete_user_account"} -> "ok"
    [] o = "kick_user_server" ->
         IF ~has_permission(rights, admin, "KICK_USERS")
         THEN "PermissionError" ELSE DoCmdCheck(rights, admin)
    [] o = "kick_user_channel" ->
         IF ~has_permission(rights, admin, "KICK_USERS_FROM_CHANNEL") /\ ~isop
         THEN "PermissionError" ELSE DoCmdCheck(rights, admin)
    [] o = "ban_user" ->
         IF ~has_permission(rights, admin, "BAN_USERS")
         THEN "PermissionError" ELSE DoCmdCheck(rights, admin)
    [] o = "move_user" ->
         IF ~has_permission(rights, admin, "MOVE_USERS")
         THEN "PermissionError" ELSE DoCmdCheck(rights, admin)
    [] o = "Channel.update" ->
         \* self._tt is no attribute of a Channel: evaluating the second
         \* operand of the `or` raises
         IF ~has_permission(rights, admin, "MODIFY_CHANNELS")
         THEN "PermissionError" ELSE "AttributeError"

\* what an operation does with the result r of its native call: "wait"
\* for a call of _waitForCmd(r, 2000), else what it raises or returns
AfterIssue(o, r) ==
  CASE o \in {"create_channel", "delete_channel", "create_user_account",
              "delete_user_account"} ->
         IF r = -1 THEN "ValueError" ELSE "wait"
    [] o \in {"make_channel_operator", "remove_channel_operator"} ->
         IF r = -1 THEN "PermissionError" ELSE "wait"
    \* the result of _do_cmd is not bound to `result` in this branch
    [] o = "kick_user_server" -> "UnboundLocalError"
    [] o \in {"kick_user_channel", "ban_user"} ->
         IF r = -1 THEN "ValueError" ELSE "None"
    \* the result of _do_cmd is dropped
    [] o = "move_user" -> "None"

\* the exception an operation maps a command error code to, or "none"
ErrorOutcome(o, code) ==
  CASE o = "create_channel" ->
         IF code = "CMDERR_NOT_AUTHORIZED" THEN "PermissionError"
         ELSE IF code = "CMDERR_CHANNEL_NOT_FOUND" THEN "ValueError"
         ELSE "none"
    [] o = "delete_channel" ->
         IF code = "CMDERR_NOT_AUTHORIZED" THEN "PermissionError"
         ELSE IF code = "CMDERR_CHANNEL_NOT_FOUND" THEN "ValueError"
         ELSE "none"
    [] o \in {"make_channel_operator", "remove_channel_operator"} ->
         IF code = "CMDERR_NOT_AUTHORIZED" THEN "PermissionError"
         ELSE IF code = "CMDERR_CHANNEL_NOT_FOUND" THEN "ValueError"
         ELSE "none"
    [] o \in {"create_user_account", "delete_user_account"} ->
         IF code = "CMDERR_NOT_AUTHORIZED" THEN "PermissionError"
         ELSE "none"

\* what an operation does with the pair _waitForCmd returned
AfterWait(o, ret) ==
  IF ret.ok THEN "True"
  \* err_nr = cmd_err.nErrorNo: the empty TTMessage of a timeout has no
  \* nErrorNo, only a ClientErrorMsg has
  ELSE IF ret.val.kind # "ClientErrorMsg" THEN "AttributeError"
  ELSE IF ErrorOutcome(o, ret.val.val) # "none"
       THEN ErrorOutcome(o, ret.val.val)
  ELSE IF o \in {"make_channel_operator", "remove_channel_operator"}
       THEN "False"
  ELSE "True"

\* an operation is called: it runs up to its return, its raise, or its
\* call of _waitForCmd (the account's rights are read before the native
\* call only, and are kept for an operation that ends here)
OpCall(o, rights, admin, isop, r) ==
  /\ op = "none" /\ wpc = "idle"
  /\ op' = o
  /\ IF BeforeIssue(o, rights, admin, isop) # "ok"
     THEN /\ opres' = 0
          /\ opout' = BeforeIssue(o, rights, admin, isop)
          /\ oprights' = rights /\ opadmin' = admin /\ opisop' = isop
          /\ UNCHANGED wvars
     ELSE /\ opres' = r
          /\ IF AfterIssue(o, r) # "wait"
             THEN /\ opout' = AfterIssue(o, r)
                  /\ oprights' = rights /\ opadmin' = admin /\ opisop' = isop
                  /\ UNCHANGED wvars
             ELSE /\ opout' = ""
                  /\ oprights' = {} /\ opadmin' = FALSE /\ opisop' = FALSE
                  /\ Frame("waitForCmd", "NONE", r, CmdTimeout)
                  /\ wend' = now + CmdTimeout
                  /\ wpoll' = DefaultWait
                  /\ wpc' = "cmd"
  /\ UNCHANGED <<xvars, queue, now, bvars>>

\* _waitForCmd returned into the operation
OpAfterWait ==
  /\ op # "none" /\ wpc = "done"
  /\ opout' = AfterWait(op, wret)
  /\ DropFrame
  /\ UNCHANGED <<xvars, queue, now, op, opres, oprights, opadmin, opisop, bvars>>

\* the operation has returned or raised into its caller
OpReturn ==
  /\ op # "none" /\ opout # ""
  /\ op' = "none" /\ opres' = 0 /\ opout' = ""
  /\ oprights' = {} /\ opadmin' = FALSE /\ opisop' = FALSE
  /\ UNCHANGED <<xvars, queue, now, wvars, bvars>>

\* the operations on their own: events and time are followed while an
\* operation waits
InitO == InitW

NextO ==
  \/ \E o \in CommandOps, rights \in SUBSET Permissions, admin \in BOOLEAN,
        isop \in BOOLEAN, r \in NativeResults :
       OpCall(o, rights, admin, isop, r)
  \/ WfcPoll
  \/ OpAfterWait
  \/ OpReturn
  \/ \E e \in OpsEvents : Blocked /\ Arrive(e)
  \/ Blocked /\ Tick

SpecO == InitO /\ [][NextO]_vars

\* ------------------------------------------ TeamTalkInstance._process_events
\* self.super.getMyUserID()
MyUserID == 1

UserIds == {1, 2}

EvU(k, s, v, u) == [kind |-> k, src |-> s, val |-> v, uid |-> u, n |-> 0]

\* a chain that takes a text message of any type
TextMsgTypesAny == {"MSGTYPE_USER", "MSGTYPE_CHANNEL", "MSGTYPE_BROADCAST",
                    "MSGTYPE_CUSTOM", "MSGTYPE_NONE"}

\* the nMsgType values the chain builds a message object for
TextMsgTypes == {"MSGTYPE_USER", "MSGTYPE_CHANNEL", "MSGTYPE_BROADCAST",
                 "MSGTYPE_CUSTOM"}

\* the kinds whose events carry nothing the chain reads
PlainKinds ==
  {"USER_FIRSTVOICESTREAMPACKET", "CMD_USER_LOGGEDIN", "CMD_USER_LOGGEDOUT",
   "CMD_USER_UPDATE", "CMD_CHANNEL_NEW", "CMD_CHANNEL_UPDATE",
   "CMD_CHANNEL_REMOVE", "CMD_SERVER_UPDATE", "CMD_SERVERSTATISTICS",
   "CMD_FILE_NEW", "CMD_FILE_REMOVE", "CMD_MYSELF_KICKED", "CMD_USERACCOUNT",
   "CMD_BANNEDUSER", "CON_LOST", "CMD_PROCESSING", "AUDIOINPUT",
   "CON_SUCCESS", "CMD_MYSELF_LOGGEDIN", "USER_AUDIOBLOCK"}

\* every event the native queue may hold: val is uUserState of a state
\* change and nMsgType of a text message, uid is msg.user.nUserID
AllEvents ==
  {EvU("USER_STATECHANGE", 0, v, u) : v \in {"0", "1", "2"}, u \in UserIds}
    \cup {EvU("CMD_USER_JOINED", 0, "", u) : u \in UserIds}
    \cup {EvU("CMD_USER_LEFT", 3, "", u) : u \in UserIds}
    \cup {EvU("CMD_USER_TEXTMSG", 0, t, 0) : t \in TextMsgTypes \cup {"MSGTYPE_NONE"}}
    \cup {Ev(k, 0, "") : k \in PlainKinds}
    \cup {Ev("CMD_SUCCESS", 1, ""), Ev("CMD_ERROR", 1, "CMDERR_NOT_AUTHORIZED")}

Outcome(d, e) == [disp |-> d, side |-> e]

\* a chain that logs every event it has no branch for
UnloggedNone == {}

\* the kinds the final else leaves out of the "Unhandled event" warning
Unlogged == {"CMD_PROCESSING", "CMD_ERROR", "CMD_SUCCESS", "AUDIOINPUT"}

\* the chain of _process_events on the event it read, in the order of the
\* code: the name passed to dispatch ("" when dispatch is not called), and
\* what else the branch does
ProcessOutcome(m) ==
  IF m.kind = "USER_STATECHANGE"
    THEN Outcome("", IF m.val = "1" THEN "enable_user" ELSE "")
  ELSE IF m.kind = "CMD_USER_JOINED"
    THEN Outcome("user_join", IF m.uid = MyUserID THEN "enable_muxed" ELSE "")
  ELSE IF m.kind = "USER_FIRSTVOICESTREAMPACKET" THEN Outcome("", "")
  ELSE IF m.kind = "CMD_USER_LEFT"
    THEN Outcome("user_left", IF m.uid = MyUserID THEN "disable_muxed" ELSE "")
  ELSE IF m.kind = "NONE" THEN Outcome("", "")
  ELSE IF m.kind = "CMD_USER_TEXTMSG" /\ m.val \in TextMsgTypes
    THEN Outcome("message", "")
  ELSE IF m.kind = "CMD_USER_LOGGEDIN" THEN Outcome("user_login", "")
  ELSE IF m.kind = "CMD_USER_LOGGEDOUT" THEN Outcome("user_logout", "")
  ELSE IF m.kind = "CMD_USER_UPDATE" THEN Outcome("user_update", "")
  ELSE IF m.kind = "CMD_CHANNEL_NEW" THEN Outcome("channel_new", "")
  ELSE IF m.kind = "CMD_CHANNEL_UPDATE" THEN Outcome("channel_update", "")
  ELSE IF m.kind = "CMD_CHANNEL_REMOVE" THEN Outcome("channel_delete", "")
  ELSE IF m.kind = "CMD_SERVER_UPDATE" THEN Outcome("server_update", "")
  ELSE IF m.kind = "CMD_SERVERSTATISTICS"
    THEN Outcome("server_statistics", "")
  ELSE IF m.kind = "CMD_FILE_NEW" THEN Outcome("file_new", "")
  ELSE IF m.kind = "CMD_FILE_REMOVE" THEN Outcome("file_delete", "")
  ELSE IF m.kind = "CMD_MYSELF_KICKED"
    THEN Outcome("my_kicked_from_channel", "")
  ELSE IF m.kind = "CMD_USERACCOUNT" THEN Outcome("", "append_account")
  ELSE IF m.kind = "CMD_BANNEDUSER" THEN Outcome("", "append_banned")
  ELSE IF m.kind = "CON_LOST" THEN Outcome("my_connection_lost", "")
  ELSE IF m.kind \notin Unlogged THEN Outcome("", "log_unhandled")
  ELSE Outcome("", "")

\* ------------------------------------------------------- TeamTalkBot
\* a registry in which the first handler of a name stays
event_keep_first(name, coro) ==
  /\ Len(reglog) < MaxRegs
  /\ running = NoTask
  /\ reglog' = Append(reglog, [name |-> name, coro |-> coro])
  /\ IF ~iscoroutinefunction(coro)
     THEN regout' = "TypeError" /\ attrs' = attrs
     ELSE /\ regout' = "ok"
          /\ attrs' = IF attrs[name] \in Coroutines THEN attrs
                      ELSE [attrs EXCEPT ![name] = coro]
  /\ UNCHANGED <<xvars, queue, now, wvars, ovars, ready, created, started, raised,
                 errors, mainpc, running, nextn, plast, user_accounts,
                 banned_users>>

\* TeamTalkBot.event(coro), coro.__name__ being `name`
event(name, coro) ==
  /\ Len(reglog) < MaxRegs
  /\ running = NoTask
  /\ reglog' = Append(reglog, [name |-> name, coro |-> coro])
  /\ IF ~iscoroutinefunction(coro)
     THEN regout' = "TypeError" /\ attrs' = attrs
     ELSE regout' = "ok" /\ attrs' = [attrs EXCEPT ![name] = coro]
  /\ UNCHANGED <<xvars, queue, now, wvars, ovars, ready, created, started, raised,
                 errors, mainpc, running, nextn, plast, user_accounts,
                 banned_users>>

\* dispatch(event, *args): the tasks it has _schedule_event create; there
\* are no listeners, and getattr(self, method) may fail
dispatch(k, args) ==
  IF attrs[MethodOf[k]] = "unset" THEN << >>
  ELSE << [name |-> MethodOf[k], coro |-> attrs[MethodOf[k]], args |-> args,
           regs |-> Len(reglog)] >>

\* a scheduling that puts the new task before the waiting ones
schedule_event_first(q, task) == <<task>> \o q

\* _schedule_event: self.loop.create_task(wrapped): behind the tasks that
\* are ready already
schedule_event(q, task) == Append(q, task)

ScheduleAll(q, ts) == IF ts = << >> THEN q ELSE schedule_event(q, ts[1])

\* what awaiting the handler's coroutine ends in
HandlerResult(coro) ==
  CASE coro = "h_ok" -> "ok"
    [] coro = "h_raise" -> "Exception"
    [] coro = "h_cmd" -> "command"
    [] coro \in {"h_list_accounts", "h_list_bans"} -> "command"

\* a dispatch boundary that lets the exception go
run_event_uncaught(task, result) == << >>

\* _run_event: `except Exception: await self.on_error(event_name, *args)`;
\* the calls of on_error it makes
run_event(task, result) ==
  IF result = "Exception" THEN << [name |-> task.name, args |-> task.args] >>
  ELSE << >>

\* _start up to its loop: self.dispatch("ready")
start ==
  /\ mainpc = "start"
  /\ created' = created \o dispatch("ready", TTMessage)
  /\ ready' = ScheduleAll(ready, dispatch("ready", TTMessage))
  /\ mainpc' = "run"
  /\ UNCHANGED <<xvars, queue, now, wvars, ovars, attrs, reglog, regout, started,
                 raised, errors, running, nextn, plast, user_accounts,
                 banned_users>>

\* a _process_events that reads the queue until it is empty, acting on the
\* first event only
ProcessEventsDrain(pc) ==
  /\ mainpc = "run"
  /\ LET m == Got
         o == ProcessOutcome(m)
         ts == IF o.disp = "" THEN << >> ELSE dispatch(o.disp, m)
     IN /\ queue' = << >>
        /\ plast' = [msg |-> m, disp |-> o.disp, side |-> o.side]
        /\ user_accounts' = IF o.side = "append_account"
                            THEN Append(user_accounts, m.n)
                            ELSE user_accounts
        /\ banned_users' = IF o.side = "append_banned"
                           THEN Append(banned_users, m.n)
                           ELSE banned_users
        /\ created' = created \o ts
        /\ ready' = ScheduleAll(ready, ts)
  /\ mainpc' = pc
  /\ UNCHANGED <<xvars, now, wvars, ovars, attrs, reglog, regout, started, raised,
                 errors, running, nextn>>

\* `await teamtalk._process_events()` on the connection, _start going on
\* at `pc` with the thread still held
ProcessEvents(pc) ==
  /\ mainpc = "run"
  /\ LET m == Got
         o == ProcessOutcome(m)
         ts == IF o.disp = "" THEN << >> ELSE dispatch(o.disp, m)
     IN /\ queue' = Rest
        /\ plast' = [msg |-> m, disp |-> o.disp, side |-> o.side]
        /\ user_accounts' = IF o.side = "append_account"
                            THEN Append(user_accounts, m.n)
                            ELSE user_accounts
        /\ banned_users' = IF o.side = "append_banned"
                           THEN Append(banned_users, m.n)
                           ELSE banned_users
        /\ created' = created \o ts
        /\ ready' = ScheduleAll(ready, ts)
  /\ mainpc' = pc
  /\ UNCHANGED <<xvars, now, wvars, ovars, attrs, reglog, regout, started, raised,
                 errors, running, nextn>>

\* one pass of _start's loop with one connection: _process_events on it, up
\* to `await asyncio.sleep(0.001)`
process_events == ProcessEvents("sleep")

\* a loop whose next pass waits for the handlers that are suspended
WakeMainAfterHandlers ==
  /\ mainpc = "sleep"
  /\ running = NoTask
  /\ \A i \in DOMAIN calls : calls[i].state # "sleeping"
  /\ ready' = Append(ready, MainTask)
  /\ mainpc' = "queued"
  /\ UNCHANGED <<xvars, queue, now, wvars, ovars, attrs, reglog, regout, created,
                 started, raised, errors, running, nextn, plast,
                 user_accounts, banned_users>>

\* the sleep of _start is over: _start is runnable again
WakeMain ==
  /\ mainpc = "sleep"
  /\ running = NoTask
  /\ ready' = Append(ready, MainTask)
  /\ mainpc' = "queued"
  /\ UNCHANGED <<xvars, queue, now, wvars, ovars, attrs, reglog, regout, created,
                 started, raised, errors, running, nextn, plast,
                 user_accounts, banned_users>>

\* an event loop that runs the next task while a handler holds the thread
run_next_preempting ==
  /\ ready # << >>
  /\ mainpc \in {"sleep", "queued"}
  /\ ready' = Tail(ready)
  /\ LET t == Head(ready)
     IN IF t = MainTask
        THEN /\ mainpc' = "run"
             /\ UNCHANGED <<started, raised, errors, running>>
        ELSE /\ mainpc' = mainpc
             /\ started' = Append(started, t)
             /\ running' = IF HandlerResult(t.coro) = "command" THEN t
                           ELSE running
             /\ raised' = IF HandlerResult(t.coro) = "Exception"
                          THEN Append(raised, t) ELSE raised
             /\ errors' = errors \o run_event(t, HandlerResult(t.coro))
  /\ UNCHANGED <<xvars, queue, now, wvars, ovars, attrs, reglog, regout, created,
                 nextn, plast, user_accounts, banned_users>>

\* the event loop runs the first runnable task: _start goes on to its next
\* pass, a handler task runs _run_event up to its end or into a command
run_next ==
  /\ ready # << >>
  /\ running = NoTask
  /\ mainpc \in {"sleep", "queued"}
  /\ ready' = Tail(ready)
  /\ LET t == Head(ready)
     IN IF t = MainTask
        THEN /\ mainpc' = "run"
             /\ UNCHANGED <<started, raised, errors, running>>
        ELSE /\ mainpc' = mainpc
             /\ started' = Append(started, t)
             /\ running' = IF HandlerResult(t.coro) = "command" THEN t
                           ELSE NoTask
             /\ raised' = IF HandlerResult(t.coro) = "Exception"
                          THEN Append(raised, t) ELSE raised
             /\ errors' = errors \o run_event(t, HandlerResult(t.coro))
  /\ UNCHANGED <<xvars, queue, now, wvars, ovars, attrs, reglog, regout, created,
                 nextn, plast, user_accounts, banned_users>>

\* the handler that holds the thread calls a command-issuing operation
HandlerCommand(o, rights, r) ==
  /\ running # NoTask
  /\ OpCall(o, rights, FALSE, FALSE, r)

\* the operation has returned or raised into the handler, and the handler
\* ends with it
HandlerOpDone ==
  /\ running # NoTask
  /\ op # "none" /\ opout # ""
  /\ LET result == IF opout \in {"None", "True", "False"} THEN "ok"
                   ELSE "Exception"
     IN /\ raised' = IF result = "Exception" THEN Append(raised, running)
                     ELSE raised
        /\ errors' = errors \o run_event(running, result)
  /\ running' = NoTask
  /\ op' = "none" /\ opres' = 0 /\ opout' = ""
  /\ oprights' = {} /\ opadmin' = FALSE /\ opisop' = FALSE
  /\ UNCHANGED <<xvars, queue, now, wvars, attrs, reglog, regout, ready, created,
                 started, mainpc, nextn, plast, user_accounts, banned_users>>

\* the native library queues the next event of the connection
Inject(e) ==
  /\ nextn < MaxEvents
  /\ Len(queue) < MaxQueue
  /\ nextn' = nextn + 1
  /\ queue' = Append(queue, [e EXCEPT !.n = nextn + 1])
  /\ UNCHANGED <<xvars, now, wvars, ovars, attrs, reglog, regout, ready, created,
                 started, raised, errors, mainpc, running, plast,
                 user_accounts, banned_users>>

\* the bot with handlers that raise and that issue commands, registered
\* before run()
BotEvents ==
  {EvU("CMD_USER_JOINED", 0, "", 2), EvU("CMD_USER_LEFT", 3, "", 2),
   Ev("CMD_SUCCESS", 1, "")}

BotNames == {"on_ready", "on_user_join", "on_user_left"}

BotCoroutines == {"h_ok", "h_raise", "h_cmd"}

InitB == InitW

NextB ==
  \/ \E name \in BotNames, coro \in BotCoroutines :
       /\ mainpc = "start"
       /\ event(name, coro)
  \/ start
  \/ process_events
  \/ WakeMain
  \/ run_next
  \/ \E r \in {1} : HandlerCommand("create_channel", {"MODIFY_CHANNELS"}, r)
  \/ WfcPoll
  \/ OpAfterWait
  \/ HandlerOpDone
  \/ \E e \in BotEvents : Inject(e)
  \/ Blocked /\ Tick

SpecB == InitB /\ [][NextB]_vars

\* the registry: event() called at any time between two steps of the
\* loop, with coroutines and with a plain function
RegNames == {"on_user_join", "on_error", "helper"}

RegCallables == {"h_ok", "h_raise", "f_plain"}

RegEvents ==
  {EvU("CMD_USER_JOINED", 0, "", 2), EvU("CMD_USER_LEFT", 3, "", 2)}

InitR == InitW

NextR ==
  \/ \E name \in RegNames, coro \in RegCallables : event(name, coro)
  \/ start
  \/ process_events
  \/ WakeMain
  \/ run_next
  \/ \E e \in RegEvents : Inject(e)

SpecR == InitR /\ [][NextR]_vars

\* the classification chain on every kind of event, no handler registered
InitC == InitW

NextC ==
  \/ start
  \/ process_events
  \/ WakeMain
  \/ run_next
  \/ \E e \in AllEvents : Inject(e)

SpecC == InitC /\ [][NextC]_vars

\* --------------------------------------- teardown of _start and __aexit__
\* KeyboardInterrupt reaches _start while it holds the thread inside
\* _process_events; the except clause: doLogout(), dispatch("my_logout"),
\* disconnect(), dispatch("my_disconnect"); then _start returns
start_except ==
  /\ mainpc = "run"
  /\ teardown = NoTeardown
  /\ teardown' = [how |-> "KeyboardInterrupt", created |-> Len(created),
                  started |-> Len(started)]
  /\ LET t1 == dispatch("my_logout", TTMessage)
         t2 == dispatch("my_disconnect", TTMessage)
     IN /\ created' = created \o t1 \o t2
        /\ ready' = ScheduleAll(ScheduleAll(ready, t1), t2)
  /\ conn' = "disconnected"
  /\ mainpc' = "exit"
  /\ UNCHANGED <<x2vars, x3vars, mvars, evars, queue, now, wvars, ovars, attrs, reglog,
                 regout, started, raised, errors, running, nextn, plast,
                 user_accounts, banned_users>>

\* the task of _start is cancelled (asyncio.run on SIGINT): CancelledError
\* is thrown into it when the event loop resumes it at its sleep, and no
\* except clause of _start takes it
start_cancelled ==
  /\ \/ mainpc = "sleep" /\ ready = << >>
     \/ mainpc = "queued" /\ Head(ready) = MainTask
  /\ running = NoTask
  /\ teardown = NoTeardown
  /\ teardown' = [how |-> "CancelledError", created |-> Len(created),
                  started |-> Len(started)]
  /\ ready' = IF mainpc = "queued" THEN Tail(ready) ELSE ready
  /\ mainpc' = "exit"
  /\ UNCHANGED <<x2vars, x3vars, conn, mvars, evars, queue, now, wvars, ovars, attrs,
                 reglog, regout, created, started, raised, errors, running,
                 nextn, plast, user_accounts, banned_users>>

\* __aexit__, entered when _start has returned or raised: disconnect() and
\* closeTeamTalk(), which releases the native handle
aexit ==
  /\ mainpc = "exit"
  /\ conn' = "closed"
  /\ mainpc' = "done"
  /\ UNCHANGED <<x2vars, x3vars, teardown, mvars, evars, queue, now, wvars, ovars, attrs, reglog,
                 regout, ready, created, started, raised, errors, running,
                 nextn, plast, user_accounts, banned_users>>

\* the event loop stops behind the tasks that were runnable when the task
\* of runner() ended: each of them runs before the loop stops
run_pending ==
  /\ mainpc = "done"
  /\ ready # << >>
  /\ ready' = Tail(ready)
  /\ LET t == Head(ready)
     IN /\ started' = Append(started, t)
        /\ raised' = IF HandlerResult(t.coro) = "Exception"
                     THEN Append(raised, t) ELSE raised
        /\ errors' = errors \o run_event(t, HandlerResult(t.coro))
  /\ UNCHANGED <<xvars, queue, now, wvars, ovars, attrs, reglog, regout,
                 created, mainpc, running, nextn, plast, user_accounts,
                 banned_users>>

TeardownNames == {"on_my_logout", "on_my_disconnect", "on_user_join"}

TeardownCoroutines == {"h_ok", "h_raise"}

TeardownEvents == {EvU("CMD_USER_JOINED", 0, "", 2)}

InitT == InitW

NextT ==
  \/ \E name \in TeardownNames, coro \in TeardownCoroutines :
       /\ mainpc = "start"
       /\ event(name, coro)
  \/ start
  \/ process_events
  \/ WakeMain
  \/ run_next
  \/ \E e \in TeardownEvents : Inject(e)
  \/ start_except
  \/ start_cancelled
  \/ aexit
  \/ run_pending

SpecT == InitT /\ [][NextT]_vars

\* ------------------------------------------- a bot with two connections
\* the native library queues an event on the second connection
Inject2(e) ==
  /\ nextn < MaxEvents
  /\ Len(queue2) < MaxQueue
  /\ nextn' = nextn + 1
  /\ queue2' = Append(queue2, [e EXCEPT !.n = nextn + 1])
  /\ since2' = IF queue2 = << >> THEN now ELSE since2
  /\ UNCHANGED <<x2vars, x3vars, tvars, evars, queue, now, wvars, ovars, attrs, reglog,
                 regout, ready, created, started, raised, errors, mainpc,
                 running, plast, user_accounts, banned_users>>

\* the pass of _start's loop goes on to the second connection:
\* _process_events on it, up to `await asyncio.sleep(0.001)`
process_events_2 ==
  /\ mainpc = "run2"
  /\ LET m == IF queue2 = << >> THEN TTMessage ELSE Head(queue2)
         o == ProcessOutcome(m)
         ts == IF o.disp = "" THEN << >> ELSE dispatch(o.disp, m)
     IN /\ queue2' = IF queue2 = << >> THEN queue2 ELSE Tail(queue2)
        /\ plast' = [msg |-> m, disp |-> o.disp, side |-> o.side]
        /\ created' = created \o ts
        /\ ready' = ScheduleAll(ready, ts)
  /\ since2' = now
  /\ mainpc' = "sleep"
  /\ UNCHANGED <<x2vars, x3vars, tvars, evars, queue, now, wvars, ovars, attrs, reglog,
                 regout, started, raised, errors, running, nextn,
                 user_accounts, banned_users>>

TwoNames == {"on_user_join", "on_user_left"}

TwoCoroutines == {"h_ok", "h_cmd"}

TwoEvents1 == {EvU("CMD_USER_JOINED", 0, "", 2), Ev("CMD_SUCCESS", 1, "")}

TwoEvents2 == {EvU("CMD_USER_LEFT", 3, "", 2)}

InitM == InitW

NextM ==
  \/ \E name \in TwoNames, coro \in TwoCoroutines :
       /\ mainpc = "start"
       /\ event(name, coro)
  \/ start
  \/ ProcessEvents("run2")
  \/ process_events_2
  \/ WakeMain
  \/ run_next
  \/ \E r \in {1} : HandlerCommand("create_channel", {"MODIFY_CHANNELS"}, r)
  \/ WfcPoll
  \/ OpAfterWait
  \/ HandlerOpDone
  \/ \E e \in TwoEvents1 : Inject(e)
  \/ \E e \in TwoEvents2 : Inject2(e)
  \/ Blocked /\ Tick

SpecM == InitM /\ [][NextM]_vars

\* ------------------------- list_user_accounts and list_banned_users
\* the events the native queue of a connection may hold unread
MaxBacklog == 2

\* `await asyncio.sleep(1)`, in units of the clock
ListSleep == 1

ListCoroutines == {"h_list_accounts", "h_list_bans"}

\* the operation the handler awaits
ListKind(coro) == IF coro = "h_list_accounts" THEN "accounts" ELSE "bans"

\* the accumulator of an enumeration
Accumulator(kind) ==
  IF kind = "accounts" THEN user_accounts ELSE banned_users

\* the handler that holds the thread awaits list_user_accounts() or
\* list_banned_users(): the call up to `await asyncio.sleep(1)`, or to the
\* exception that ends the handler
ListCall(admin, r) ==
  /\ running # NoTask
  /\ running.coro \in ListCoroutines
  /\ LET kind == ListKind(running.coro)
         result == IF ~admin THEN "PermissionError"
                   ELSE IF r = -1 THEN "ValueError"
                   ELSE "sleep"
     IN /\ user_accounts' = IF admin /\ kind = "accounts" THEN << >>
                            ELSE user_accounts
        /\ banned_users' = IF admin /\ kind = "bans" THEN << >>
                           ELSE banned_users
        /\ calls' = IF result = "sleep"
                    THEN Append(calls, [kind |-> kind, task |-> running,
                                        wake |-> now + ListSleep,
                                        state |-> "sleeping", ret |-> << >>])
                    ELSE calls
        /\ raised' = IF result = "sleep" THEN raised
                     ELSE Append(raised, running)
        /\ errors' = IF result = "sleep" THEN errors
                     ELSE errors \o run_event(running, "Exception")
  /\ running' = NoTask
  /\ UNCHANGED <<x2vars, x3vars, tvars, mvars, origin, queue, now, wvars, ovars, attrs,
                 reglog, regout, ready, created, started, mainpc, nextn,
                 plast>>

\* the sleep of call i is over and the event loop resumes it:
\* `return self.user_accounts` / `return self.banned_users`
ListReturn(i) ==
  /\ i \in DOMAIN calls
  /\ calls[i].state = "sleeping"
  /\ now >= calls[i].wake
  /\ running = NoTask
  /\ mainpc \in {"sleep", "queued"}
  /\ calls' = [calls EXCEPT ![i].state = "returned",
                            ![i].ret = Accumulator(calls[i].kind)]
  /\ UNCHANGED <<x2vars, x3vars, tvars, mvars, origin, queue, now, wvars, ovars, bvars>>

\* the server answers enumeration i: the native library queues one more
\* result event of it
InjectResult(i) ==
  /\ i \in DOMAIN calls
  /\ nextn < MaxEvents
  /\ Len(queue) < MaxBacklog
  /\ nextn' = nextn + 1
  /\ queue' = Append(queue,
                [Ev(IF calls[i].kind = "accounts" THEN "CMD_USERACCOUNT"
                    ELSE "CMD_BANNEDUSER", i, "") EXCEPT !.n = nextn + 1])
  /\ origin' = origin \cup {[n |-> nextn + 1, call |-> i]}
  /\ UNCHANGED <<x2vars, x3vars, tvars, mvars, calls, now, wvars, ovars, attrs, reglog,
                 regout, ready, created, started, raised, errors, mainpc,
                 running, plast, user_accounts, banned_users>>

\* time passes while a call sleeps: the sleep of _start is a thousand times
\* shorter, so by then the loop has read what was queued and has run the
\* tasks that were runnable
Sleeping ==
  /\ \E i \in DOMAIN calls :
       calls[i].state = "sleeping" /\ now < calls[i].wake
  /\ queue = << >>
  /\ ready \in {<< >>, <<MainTask>>}
  /\ running = NoTask

ListNames == {"on_ready", "on_user_join"}

ListEvents == {EvU("CMD_USER_JOINED", 0, "", 2)}

InitE == InitW

NextE ==
  \/ \E name \in ListNames, coro \in ListCoroutines :
       /\ mainpc = "start"
       /\ event(name, coro)
  \/ start
  \/ process_events
  \/ WakeMain
  \/ run_next
  \/ \E admin \in BOOLEAN, r \in {-1, 1} : ListCall(admin, r)
  \/ \E i \in 1..(MaxEvents + 1) : ListReturn(i)
  \/ \E i \in 1..(MaxEvents + 1) : InjectResult(i)
  \/ \E e \in ListEvents : Inject(e)
  \/ Sleeping /\ Tick

SpecE == InitE /\ [][NextE]_vars

\* ------------------------------------- add_server: connect() and login()
\* DEF_WAIT, the timeout of _waitForEvent in connect and login (1500 ms; the
\* clock counts in units of 1000 ms)
DefWait == 1

\* self.super.getRootChannelID()
RootChannelID == 1

\* TeamTalkServerInfo.join_channel_id: the default, the root, a channel
JoinChannelIds == {-1, 0, 2}

\* a connect() that raises the flag before it has waited
connect_flag_first(native_ok) ==
  /\ op = "none" /\ wpc = "idle"
  /\ op' = "connect" /\ opres' = 0
  /\ connected' = TRUE
  /\ IF ~native_ok
     THEN opout' = "False" /\ UNCHANGED wvars
     ELSE /\ opout' = ""
          /\ Frame("waitForEvent", "CON_SUCCESS", 0, DefWait)
          /\ EnterWaitForEvent
  /\ UNCHANGED <<tvars, mvars, evars, x3vars, avars, svars, dvars, teamtalks, logged_in, joined, cdisp,
                 join_channel_id, queue, now, oprights, opadmin, opisop,
                 bvars>>

\* the calls on an instance that change its flags
InstanceCalls == {"connect", "login", "logout", "disconnect"}

\* connect(): self.super.connect(...), then the call of
\* _waitForEvent(CLIENTEVENT_CON_SUCCESS)
connect(native_ok) ==
  /\ op = "none" /\ wpc = "idle"
  /\ op' = "connect" /\ opres' = 0
  /\ IF ~native_ok
     THEN opout' = "False" /\ UNCHANGED wvars
     ELSE /\ opout' = ""
          /\ Frame("waitForEvent", "CON_SUCCESS", 0, DefWait)
          /\ EnterWaitForEvent
  /\ UNCHANGED <<xvars, queue, now, oprights, opadmin, opisop, bvars>>

\* the wait returned into connect(): return False, or dispatch my_connect,
\* set self.connected and return True
connect_after_wait ==
  /\ op = "connect" /\ wpc = "done"
  /\ IF wret.ok
     THEN /\ cdisp' = Append(cdisp, "my_connect")
          /\ created' = created \o dispatch("my_connect", TTMessage)
          /\ ready' = ScheduleAll(ready, dispatch("my_connect", TTMessage))
          /\ connected' = TRUE
          /\ opout' = "True"
     ELSE /\ opout' = "False"
          /\ UNCHANGED <<cdisp, created, ready, connected>>
  /\ DropFrame
  /\ UNCHANGED <<tvars, mvars, evars, x3vars, avars, svars, dvars, teamtalks, logged_in, joined,
                 join_channel_id, queue, now, op, opres, oprights, opadmin,
                 opisop, attrs, reglog, regout, started, raised, errors,
                 mainpc, running, nextn, plast, user_accounts, banned_users>>

\* login(), called with no call in progress (add_server calls it when
\* connect() has returned, whatever it returned): self.super.doLogin(...),
\* then _waitForEvent(CMD_MYSELF_LOGGEDIN)
login(jid) ==
  /\ wpc = "idle"
  /\ op = "none" \/ (op \in InstanceCalls /\ opout # "")
  /\ op' = "login" /\ opout' = ""
  /\ join_channel_id' = jid
  /\ Frame("waitForEvent", "CMD_MYSELF_LOGGEDIN", 0, DefWait)
  /\ EnterWaitForEvent
  /\ UNCHANGED <<tvars, mvars, evars, x3vars, avars, svars, dvars, teamtalks, connected, logged_in, joined,
                 cdisp, queue, now, opres, oprights, opadmin, opisop,
                 bvars>>

\* the wait returned into login(): return False, or dispatch my_login, set
\* self.logged_in, join the channel and return True
login_after_wait ==
  /\ op = "login" /\ wpc = "done"
  /\ IF wret.ok
     THEN /\ cdisp' = Append(cdisp, "my_login")
          /\ created' = created \o dispatch("my_login", TTMessage)
          /\ ready' = ScheduleAll(ready, dispatch("my_login", TTMessage))
          /\ logged_in' = TRUE
          /\ joined' = Append(joined, IF join_channel_id < 1
                                      THEN RootChannelID
                                      ELSE join_channel_id)
          /\ opout' = "True"
     ELSE /\ opout' = "False"
          /\ UNCHANGED <<cdisp, created, ready, logged_in, joined>>
  /\ DropFrame
  /\ UNCHANGED <<tvars, mvars, evars, x3vars, avars, svars, dvars, teamtalks, connected, join_channel_id,
                 queue, now, op, opres, oprights, opadmin, opisop, attrs,
                 reglog, regout, started, raised, errors, mainpc, running,
                 nextn, plast, user_accounts, banned_users>>

\* the instances a bot is given
MaxServers == 2

\* add_server: self.teamtalks.append(tt), and the return; the next call of
\* add_server makes a new TeamTalkInstance
add_server_done ==
  /\ op = "login" /\ opout # ""
  /\ Len(teamtalks) < MaxServers
  /\ teamtalks' = Append(teamtalks, [connected |-> connected,
                                     logged_in |-> logged_in])
  /\ op' = "none" /\ opout' = ""
  /\ connected' = FALSE /\ logged_in' = FALSE
  /\ joined' = << >> /\ cdisp' = << >> /\ join_channel_id' = -1
  /\ UNCHANGED <<tvars, mvars, evars, x3vars, avars, svars, dvars, queue, now,
                 wvars, opres, oprights, opadmin, opisop, bvars>>

LoginEvents ==
  {Ev("CON_SUCCESS", 0, ""), Ev("CON_FAILED", 0, ""),
   Ev("CMD_MYSELF_LOGGEDIN", 0, "")}

NextL ==
  \/ \E native_ok \in BOOLEAN : connect(native_ok)
  \/ connect_after_wait
  \/ \E jid \in JoinChannelIds : op = "connect" /\ login(jid)
  \/ login_after_wait
  \/ add_server_done
  \/ WfeFirst
  \/ WfeLoop
  \/ \E e \in LoginEvents : Blocked /\ Arrive(e)
  \/ Blocked /\ Tick

SpecL == InitW /\ [][NextL]_vars

\* ---------------------------------------------------------------------
\* _utils.py: _get_tt_obj_attribute.  A string is a sequence of
\* characters; an object is the set of the field names it has, and the
\* value of a field is written as the field's name.
\* ---------------------------------------------------------------------
MaxLen == 3

Alphabet == {"i", "d", "x", "I", "D", "_"}

Attrs == UNION {[1..n -> Alphabet] : n \in 0..MaxLen}

\* str.lower() and str.upper(), a character at a time
lower(c) ==
  CASE c = "I" -> "i"
    [] c = "D" -> "d"
    [] OTHER -> c

upper(c) ==
  CASE c = "i" -> "I"
    [] c = "d" -> "D"
    [] c = "x" -> "X"
    [] OTHER -> c

LowerStr(s) == [k \in 1..Len(s) |-> lower(s[k])]

\* str.capitalize(): first character upper case, the rest lower case
capitalize(s) ==
  [k \in 1..Len(s) |-> IF k = 1 THEN upper(s[k]) ELSE lower(s[k])]

\* attr.split("_"): the parts between the underscores, empty ones kept
RECURSIVE split(_, _)
split(s, part) ==
  IF s = << >> THEN <<part>>
  ELSE IF Head(s) = "_" THEN <<part>> \o split(Tail(s), << >>)
  ELSE split(Tail(s), Append(part, Head(s)))

\* the loop of lines 52-59 that builds `name`
RECURSIVE name_of_parts(_)
name_of_parts(parts) ==
  IF parts = << >> THEN << >>
  ELSE (IF LowerStr(Head(parts)) = <<"i", "d">>
          THEN <<"I", "D">>
          ELSE capitalize(Head(parts))) \o name_of_parts(Tail(parts))

Name(attr) == name_of_parts(split(attr, << >>))

\* the four prefixed names, in the order the code tries them
Prefixed(name) ==
  << <<"n">> \o name, <<"s", "z">> \o name, <<"b">> \o name, <<"u">> \o name >>

\* f"{name[0].lower()}{name[1:]}"; name[0] of "" raises IndexError
LowerFirst(name) == <<lower(Head(name))>> \o Tail(name)

\* every field name a call with this attribute can look for
Fields(attr) ==
  {Prefixed(Name(attr))[k] : k \in 1..4}
    \cup (IF Name(attr) = << >> THEN {} ELSE {LowerFirst(Name(attr))})

Returned(f) == [kind |-> "value", field |-> f]

Raised(x) == [kind |-> x, field |-> << >>]

\* the chain of try/except AttributeError blocks, then the final raise
Probe(obj, name) ==
  LET p == Prefixed(name)
  IN IF p[1] \in obj THEN Returned(p[1])
     ELSE IF p[2] \in obj THEN Returned(p[2])
     ELSE IF p[3] \in obj THEN Returned(p[3])
     ELSE IF p[4] \in obj THEN Returned(p[4])
     ELSE IF name = << >> THEN Raised("IndexError")
     ELSE IF LowerFirst(name) \in obj THEN Returned(LowerFirst(name))
     ELSE Raised("AttributeError")

_get_tt_obj_attribute ==
  /\ gres = NoResult
  /\ gres' = Probe(gobj, Name(gattr))
  /\ UNCHANGED <<queue, now, wvars, ovars, bvars, tvars, mvars, evars, x3vars,
                 cvars, svars, dvars, gattr, gobj>>

InitA ==
  /\ queue = << >> /\ now = 0 /\ InitWait /\ InitOps /\ InitBot
  /\ InitConnection /\ InitStreamer /\ InitDevices /\ InitSend
  /\ gattr \in Attrs
  /\ gobj \in SUBSET Fields(gattr)
  /\ gres = NoResult

NextA == _get_tt_obj_attribute

SpecA == InitA /\ [][NextA]_vars

\* ---------------------------------------------------------------------
\* streamer.py: Streamer.stream and the _stream threads it starts.
\* Thread 0 is None; thread_pc is the place of each _stream thread in its
\* code: "start" (before the loop), "test" (the while condition after a
\* block was fed), "read", "feed", "done".
\* ---------------------------------------------------------------------
\* stream(path): the lock taken, _request_stop_stream and
\* _wait_for_cleanup
request_stop_stream ==
  /\ stream_pc = "idle"
  /\ current_streamer_thread < MaxStreams
  /\ current_streamer_running' =
       IF current_streamer_thread # 0 THEN FALSE ELSE current_streamer_running
  /\ stream_pc' = "stopped"
  /\ UNCHANGED <<queue, now, wvars, ovars, bvars, tvars, mvars, evars, x3vars,
                 cvars, avars, dvars, current_streamer_thread, thread_pc, refed>>

\* _start_new_stream, and the lock released
start_new_stream ==
  /\ stream_pc = "stopped"
  /\ current_streamer_running' = TRUE
  /\ current_streamer_thread' = current_streamer_thread + 1
  /\ thread_pc' = [thread_pc EXCEPT ![current_streamer_thread + 1] = "start"]
  /\ stream_pc' = "idle"
  /\ UNCHANGED <<queue, now, wvars, ovars, bvars, tvars, mvars, evars, x3vars,
                 cvars, avars, dvars, refed>>

\* _stream: while self._current_streamer_running; refed gets a thread
\* that has fed a block and goes into the loop again though a later
\* thread was started
stream_test(t) ==
  /\ thread_pc[t] \in {"start", "test"}
  /\ thread_pc' = [thread_pc EXCEPT ![t] =
                     IF current_streamer_running THEN "read" ELSE "done"]
  /\ refed' = IF /\ current_streamer_running
                 /\ thread_pc[t] = "test"
                 /\ t # current_streamer_thread
              THEN refed \cup {t} ELSE refed
  /\ UNCHANGED <<queue, now, wvars, ovars, bvars, tvars, mvars, evars, x3vars,
                 cvars, avars, dvars, stream_pc, current_streamer_running,
                 current_streamer_thread>>

\* block = ffmpeg_process.stdout.read(...); if len(block) == 0: break
stream_read(t, eof) ==
  /\ thread_pc[t] = "read"
  /\ thread_pc' = [thread_pc EXCEPT ![t] = IF eof THEN "done" ELSE "feed"]
  /\ UNCHANGED <<queue, now, wvars, ovars, bvars, tvars, mvars, evars, x3vars,
                 cvars, avars, dvars, stream_pc, current_streamer_running,
                 current_streamer_thread, refed>>

\* self.feed(block)
stream_feed(t) ==
  /\ thread_pc[t] = "feed"
  /\ thread_pc' = [thread_pc EXCEPT ![t] = "test"]
  /\ UNCHANGED <<queue, now, wvars, ovars, bvars, tvars, mvars, evars, x3vars,
                 cvars, avars, dvars, stream_pc, current_streamer_running,
                 current_streamer_thread, refed>>

NextS ==
  \/ request_stop_stream
  \/ start_new_stream
  \/ \E t \in (1..MaxStreams) : stream_test(t)
  \/ \E t \in (1..MaxStreams), eof \in BOOLEAN : stream_read(t, eof)
  \/ \E t \in (1..MaxStreams) : stream_feed(t)

SpecS == InitW /\ [][NextS]_vars

\* ---------------------------------------------------------------------
\* instance.py: set_input_device and get_current_input_device_id.
\* open_device is the input device the native client has open, -1 with
\* none open.
\* ---------------------------------------------------------------------
\* the ids the native library can initialise
Devices == {0, 1, 2}

\* what callers pass: ints, the word default in two spellings, a string
\* that is a number, a string that is none, and None
DevArgs ==
  {DevArg("int", "", v) : v \in {-1, 0, 1, 2, 3}}
    \cup {DevArg("str", w, 0) : w \in {"default", "DEFAULT", "1", "abc"}}
    \cup {DevArg("NoneType", "", 0)}

\* what getDefaultSoundDevices() gives: an exception, None, or a pair whose
\* first member is the default input device
DefaultsResults ==
  {[kind |-> "raise", first |-> 0], [kind |-> "None", first |-> 0]}
    \cup {[kind |-> "pair", first |-> v] : v \in {-1, 0, 2}}

\* device_id_or_name.lower() == "default"
IsDefault(arg) == arg.type = "str" /\ arg.s \in {"default", "DEFAULT"}

\* int(device_id_or_name): the number, or the error it raises
IntOf(arg) ==
  CASE arg.type = "int" -> [err |-> "", v |-> arg.v]
    [] arg.type = "str" /\ arg.s = "1" -> [err |-> "", v |-> 1]
    [] arg.type = "str" -> [err |-> "ValueError", v |-> 0]
    [] OTHER -> [err |-> "TypeError", v |-> 0]

\* lines 203-230: the target id, or how the call ends before it has one
Target(arg, defaults) ==
  IF IsDefault(arg)
  THEN IF defaults.kind = "pair" /\ defaults.first >= 0
       THEN [out |-> "", id |-> defaults.first]
       ELSE [out |-> "False", id |-> -1]
  ELSE IF IntOf(arg).err # ""
       THEN [out |-> "ValueError", id |-> -1]
       ELSE [out |-> "", id |-> IntOf(arg).v]

get_current_input_device_id == current_input_device_id

\* a set_input_device that closes the open device before it looks at its
\* argument
set_input_device_close_first(arg, defaults, success) ==
  LET t == Target(arg, defaults)
      ok == success /\ t.id \in Devices
  IN /\ IF t.out # ""
        THEN /\ current_input_device_id' = current_input_device_id
             /\ open_device' = -1
        ELSE /\ current_input_device_id' = IF ok THEN t.id ELSE -1
             /\ open_device' = IF ok THEN t.id ELSE -1
     /\ devcall' = [arg |-> arg,
                    defaults |-> IF IsDefault(arg) THEN defaults ELSE NotAsked,
                    target |-> t.id,
                    id_before |-> current_input_device_id,
                    open_before |-> open_device, inited |-> t.out = "",
                    result |-> IF t.out # "" THEN t.out
                               ELSE IF ok THEN "True" ELSE "False"]
     /\ UNCHANGED <<queue, now, wvars, ovars, bvars, tvars, mvars, evars, x3vars,
                    cvars, avars, svars>>

\* set_input_device(device_id_or_name); `success` is what
\* _InitSoundInputDevice answers for a device that exists
set_input_device(arg, defaults, success) ==
  LET t == Target(arg, defaults)
      ok == success /\ t.id \in Devices
  IN /\ IF t.out # ""
        THEN UNCHANGED <<current_input_device_id, open_device>>
        ELSE /\ current_input_device_id' = IF ok THEN t.id ELSE -1
             /\ open_device' = IF ok THEN t.id ELSE -1
     /\ devcall' = [arg |-> arg,
                    defaults |-> IF IsDefault(arg) THEN defaults ELSE NotAsked,
                    target |-> t.id,
                    id_before |-> current_input_device_id,
                    open_before |-> open_device, inited |-> t.out = "",
                    result |-> IF t.out # "" THEN t.out
                               ELSE IF ok THEN "True" ELSE "False"]
     /\ UNCHANGED <<queue, now, wvars, ovars, bvars, tvars, mvars, evars, x3vars,
                    cvars, avars, svars>>

NextD ==
  \E arg \in DevArgs, defaults \in DefaultsResults, success \in BOOLEAN :
    set_input_device(arg, defaults, success)

SpecD == InitW /\ [][NextD]_vars

\* ------------------------------ the flags of an instance over its life
\* connect() and login() calls explored
MaxCalls == 3

\* logout(): self.super.doLogout(); self.logged_in = False
logout ==
  /\ wpc = "idle"
  /\ op = "none" \/ (op \in InstanceCalls /\ opout # "")
  /\ op' = "logout" /\ opout' = "None"
  /\ logged_in' = FALSE
  /\ UNCHANGED <<tvars, mvars, evars, x3vars, avars, svars, dvars, teamtalks,
                 connected, joined, cdisp, join_channel_id, queue, now,
                 wvars, opres, oprights, opadmin, opisop, bvars>>

\* disconnect(): self.super.disconnect(); self.connected = False
disconnect ==
  /\ wpc = "idle"
  /\ op = "none" \/ (op \in InstanceCalls /\ opout # "")
  /\ op' = "disconnect" /\ opout' = "None"
  /\ connected' = FALSE
  /\ UNCHANGED <<tvars, mvars, evars, x3vars, avars, svars, dvars, teamtalks,
                 logged_in, joined, cdisp, join_channel_id, queue, now,
                 wvars, opres, oprights, opadmin, opisop, bvars>>

\* the caller has the value the call returned
instance_return ==
  /\ op \in InstanceCalls /\ opout # ""
  /\ op' = "none" /\ opout' = ""
  /\ UNCHANGED <<xvars, queue, now, wvars, opres, oprights, opadmin, opisop,
                 bvars>>

\* no call on the instance holds the thread
NoCall == wpc = "idle" /\ (op = "none" \/ opout # "")

\* the server answers a login only over a connection; the connection may be
\* lost at any time
LifeEvents == {Ev("CON_LOST", 0, "")}

NextF ==
  \/ \E native_ok \in BOOLEAN : Len(cdisp) < MaxCalls /\ connect(native_ok)
  \/ connect_after_wait
  \/ \E jid \in {0} : Len(cdisp) < MaxCalls /\ login(jid)
  \/ login_after_wait
  \/ logout
  \/ disconnect
  \/ instance_return
  \/ WfeFirst
  \/ WfeLoop
  \/ \E e \in LoginEvents :
       /\ Blocked
       /\ e.kind = "CMD_MYSELF_LOGGEDIN" => connected
       /\ Arrive(e)
  \/ Blocked /\ Tick
  \/ NoCall /\ start
  \/ NoCall /\ process_events
  \/ NoCall /\ WakeMain
  \/ NoCall /\ run_next
  \/ \E e \in LifeEvents : NoCall /\ Inject(e)

SpecF == InitW /\ [][NextF]_vars

\* ---------------------------------------------------------------------
\* streamer.py: Streamer.feed and the consumer thread _do_stream. A byte
\* is its position in all the data fed, so that a byte enqueued twice
\* shows.
\* ---------------------------------------------------------------------
\* self.block_size (4096 in the code)
BlockSize == 3

\* the bytes fed in a run
MaxFed == 6

notfvars == <<cvars, avars, svars, dvars, rvars, qvars>>

\* [data[i : i + block_size] for i in range(0, len(data), block_size)]
RECURSIVE Chunks(_)
Chunks(d) ==
  IF Len(d) <= BlockSize THEN (IF d = << >> THEN << >> ELSE <<d>>)
  ELSE <<SubSeq(d, 1, BlockSize)>> \o Chunks(SubSeq(d, BlockSize + 1, Len(d)))

\* chunks[:-1]
AllButLast(q) == SubSeq(q, 1, Len(q) - 1)

\* feed(data), data being the next n bytes
feed(n) ==
  /\ Len(fed) + n <= MaxFed
  /\ LET data == [k \in 1..n |-> Len(fed) + k]
         cur == current_data \o data
     IN /\ fed' = fed \o data
        /\ IF Len(cur) >= BlockSize
           THEN /\ blocks' = blocks \o AllButLast(Chunks(cur))
                /\ enq' = enq \o AllButLast(Chunks(cur))
                /\ current_data' = Chunks(cur)[Len(Chunks(cur))]
           ELSE /\ blocks' = Append(blocks, data)
                /\ enq' = Append(enq, data)
                /\ current_data' = cur
  /\ UNCHANGED <<queue, now, wvars, ovars, bvars, tvars, mvars, evars,
                 notfvars, inserted, do_stream_pc, do_stream_rest>>

\* _do_stream: if len(self.blocks) > 0: block = self.blocks[0], and the
\* block passed to sdk._InsertAudioBlock until it is taken
do_stream_insert ==
  /\ do_stream_pc = "check"
  /\ Len(blocks) > 0
  /\ inserted' = Append(inserted, blocks[1])
  /\ do_stream_pc' = "slice"
  /\ UNCHANGED <<queue, now, wvars, ovars, bvars, tvars, mvars, evars,
                 notfvars, blocks, current_data, fed, enq, do_stream_rest>>

\* self.blocks = self.blocks[1:], the right-hand side: a new list
do_stream_slice ==
  /\ do_stream_pc = "slice"
  /\ do_stream_rest' = Tail(blocks)
  /\ do_stream_pc' = "store"
  /\ UNCHANGED <<queue, now, wvars, ovars, bvars, tvars, mvars, evars,
                 notfvars, blocks, current_data, fed, enq, inserted>>

\* self.blocks = self.blocks[1:], the assignment
do_stream_store ==
  /\ do_stream_pc = "store"
  /\ blocks' = do_stream_rest
  /\ do_stream_rest' = << >>
  /\ do_stream_pc' = "check"
  /\ UNCHANGED <<queue, now, wvars, ovars, bvars, tvars, mvars, evars,
                 notfvars, current_data, fed, enq, inserted>>

NextK ==
  \/ \E n \in 1..(BlockSize + 1) : feed(n)
  \/ do_stream_insert
  \/ do_stream_slice
  \/ do_stream_store

SpecK == InitW /\ [][NextK]_vars

\* ---------------------------------------------------------------------
\* streamer.py: get_streamer_for_channel and the Channel objects it is
\* given. A Channel object is its position in channel_objs.
\* ---------------------------------------------------------------------
\* the Channel objects made and the calls of get_streamer_for_channel
MaxObjs == 3

ChannelIds == {1, 2}

\* the equality of dict keys: Channel defines neither __eq__ nor __hash__,
\* so two keys are equal when they are the same object
SameKey(a, b) == a = b

\* `channel in _audio_streamers`
HasStreamer(c) == \E k \in audio_streamers : SameKey(k, c)

\* get_channel(channel_id): return TeamTalkChannel(self, channel_id)
get_channel(id) ==
  /\ Len(channel_objs) < MaxObjs
  /\ channel_objs' = Append(channel_objs, id)
  /\ UNCHANGED <<queue, now, wvars, ovars, bvars, tvars, mvars, evars,
                 cvars, avars, svars, dvars, fvars, qvars, audio_streamers,
                 got>>

\* Streamer.get_streamer_for_channel(channel), channel being object c
get_streamer_for_channel(c) ==
  /\ c \in 1..Len(channel_objs)
  /\ Len(got) < MaxObjs
  /\ audio_streamers' = IF HasStreamer(c) THEN audio_streamers
                        ELSE audio_streamers \cup {c}
  /\ got' = Append(got, [id |-> channel_objs[c],
                         streamer |-> CHOOSE k \in audio_streamers' :
                                        SameKey(k, c)])
  /\ UNCHANGED <<queue, now, wvars, ovars, bvars, tvars, mvars, evars,
                 cvars, avars, svars, dvars, fvars, qvars, channel_objs>>

NextG ==
  \/ \E id \in ChannelIds : get_channel(id)
  \/ \E c \in 1..MaxObjs : get_streamer_for_channel(c)

SpecG == InitW /\ [][NextG]_vars

\* ---------------------------------------------------------------------
\* instance.py: _send_message, and the timer threads of _do_after. A
\* message is its position among the calls of _send_message.
\* ---------------------------------------------------------------------
\* the calls of _send_message in a run
MaxMsgs == 3

\* kwargs.get("delay", 0), in units of the clock
Delays == {0, 1}

\* _send_message(message, delay=d): _do_after(delay, lambda: ...) starts a
\* thread that polls the clock until `delay` has passed
send_message(d) ==
  /\ Cardinality(timers) + Len(sent) < MaxMsgs
  /\ timers' = timers \cup {[msg |-> Cardinality(timers) + Len(sent) + 1,
                             delay |-> d, due |-> now + d]}
  /\ UNCHANGED <<queue, now, wvars, ovars, bvars, tvars, mvars, evars,
                 x2vars, fvars, rvars, sent>>

\* _do_after_thread: the loop has seen the delay pass; func() calls
\* doTextMessage
do_after_thread(t) ==
  /\ t \in timers
  /\ now >= t.due
  /\ timers' = timers \ {t}
  /\ sent' = Append(sent, [msg |-> t.msg, delay |-> t.delay])
  /\ UNCHANGED <<queue, now, wvars, ovars, bvars, tvars, mvars, evars,
                 x2vars, fvars, rvars>>

\* a thread polls every millisecond: none is left behind by the clock
NoTimerDue == \A t \in timers : now < t.due

NextQ ==
  \/ \E d \in Delays : send_message(d)
  \/ \E t \in timers : do_after_thread(t)
  \/ NoTimerDue /\ Tick

SpecQ == InitW /\ [][NextQ]_vars

\* ------------------------------------------------------------- claims
TimeoutRet == [ok |-> FALSE, val |-> TTMessage]

\* C1: _waitForCmd(cmdid, T) returns (True, event) exactly when the first
\* command-success or command-error event with nSource = cmdid it reads is
\* a command-success, and then carries that event; when that first event
\* is a command-error it returns (False, the event's clienterrormsg); a
\* completion event with another id ends the wait only through the
\* timeout test, and the wait never goes on after a matching event.
C1_WaitForCmdFirstMatch ==
  /\ (wfn = "waitForCmd" /\ wpc = "cmd") => wfirst = TTMessage
  /\ (wfn = "waitForCmd" /\ wpc = "done") =>
       /\ wret.ok <=> wfirst.kind = "CMD_SUCCESS"
       /\ wret.ok => wret.val = wfirst /\ wfirst.src = wcmdid
       /\ wfirst.kind = "CMD_ERROR" =>
            wret = [ok |-> FALSE, val |-> ClientErrorMsg(wfirst)]
       /\ (IsCompletion(wmsg) /\ wmsg.src # wcmdid) =>
            (now >= wend /\ wret = TimeoutRet)

\* a success returned after the wait read and passed over other events
C1_Witness ==
  /\ wfn = "waitForCmd" /\ wpc = "done"
  /\ wret.ok /\ wret.val.src = wcmdid /\ wlost # {}

\* C2: with no completion event for cmdid, _waitForCmd(cmdid, T) runs to
\* its timeout and returns (False, empty TTMessage); it is never still
\* waiting after T has elapsed, whatever arrives, an empty queue included.
C2_WaitForCmdEndsAtTimeout ==
  /\ (wfn = "waitForCmd" /\ wpc = "cmd") => now <= wend
  /\ (wfn = "waitForCmd" /\ wpc = "done" /\ wfirst = TTMessage) =>
       (wret = TimeoutRet /\ now >= wend)

\* C3: _waitForEvent(event, T) that reads no event of the awaited kind
\* returns (False, empty TTMessage) no later than T plus one poll interval
\* (one getMessage(T) call) after it was called.
C3_WaitForEventBound ==
  (wfn = "waitForEvent" /\ wpc = "done" /\ ~wret.ok) =>
    /\ wret = TimeoutRet
    /\ now - wstart <= wtimeout + wtimeout

\* C4: _waitForCmdSuccess(cmdid, T) that reads no command success with
\* cmdid returns (False, empty TTMessage) once T has elapsed: discarded
\* successes do not restart the limit, so the call lasts no longer than a
\* single _waitForEvent(T) can (T for the first poll, then T for the loop
\* and one poll of slack).
C4_WaitForCmdSuccessBound ==
  (wfn = "waitForCmdSuccess" /\ wpc = "done" /\ ~wret.ok) =>
    /\ wret = TimeoutRet
    /\ now - wstart <= 3 * wtimeout

\* C5: whenever the native issuing call of a command-issuing operation
\* returns a negative correlation id, the operation rejects at once (it
\* raises instead of returning) and _waitForCmd is not called with that
\* id.
C5_NegativeIdRejected ==
  (op \in CommandOps /\ opres < 0) =>
    /\ opout \notin {"", "None", "True", "False"}
    /\ wfn = "none"

\* C6: every event taken off the native queue that is no command
\* completion is classified by _process_events; no wait of the Correlator
\* (_waitForEvent, _waitForCmd) consumes and drops one, also while a handler
\* that issues a command is running.
C6_NoEventLostToCorrelator ==
  /\ wlost = {}
  /\ wfn # "none" => wmsg.kind \in CompletionKinds \cup {"NONE"}

IsPrefix(s, t) == Len(s) <= Len(t) /\ \A i \in 1..Len(s) : s[i] = t[i]

HandlerTasks(q) == SelectSeq(q, LAMBDA t : t # MainTask)

\* C8: an exception a handler raises is caught by _run_event and passed to
\* on_error with the event name and the arguments; _start's loop goes on
\* (it is running, sleeping or runnable), and every other handler task
\* scheduled stays runnable until it starts.
C8_HandlerExceptionContained ==
  /\ errors = [i \in 1..Len(raised) |->
                 [name |-> raised[i].name, args |-> raised[i].args]]
  /\ mainpc \in {"start", "run", "sleep", "queued"}
  /\ mainpc = "queued" <=> (\E i \in 1..Len(ready) : ready[i] = MainTask)
  /\ HandlerTasks(ready) = SubSeq(created, Len(started) + 1, Len(created))

\* a handler raised, one handler ran before it and one after it
C8_Witness ==
  \E i, j, k \in 1..Len(started) :
    /\ i < j /\ j < k
    /\ \E r \in 1..Len(raised) : raised[r] = started[j]
    /\ \E e \in 1..Len(errors) :
         errors[e].name = started[j].name /\ errors[e].args = started[j].args

\* the table of the kinds that dispatch, event kind to domain event
C9_Listed ==
  [CMD_USER_JOINED |-> "user_join", CMD_USER_LEFT |-> "user_left",
   CMD_USER_TEXTMSG |-> "message", CMD_USER_LOGGEDIN |-> "user_login",
   CMD_USER_LOGGEDOUT |-> "user_logout", CMD_USER_UPDATE |-> "user_update",
   CMD_CHANNEL_NEW |-> "channel_new",
   CMD_CHANNEL_UPDATE |-> "channel_update",
   CMD_CHANNEL_REMOVE |-> "channel_delete",
   CMD_SERVER_UPDATE |-> "server_update",
   CMD_SERVERSTATISTICS |-> "server_statistics",
   CMD_FILE_NEW |-> "file_new", CMD_FILE_REMOVE |-> "file_delete",
   CMD_MYSELF_KICKED |-> "my_kicked_from_channel",
   CON_LOST |-> "my_connection_lost"]

C9_ByKind(m) ==
  IF m.kind \in DOMAIN C9_Listed THEN C9_Listed[m.kind] ELSE ""

C9_ByKindAndType(m) ==
  IF m.kind = "CMD_USER_TEXTMSG"
       /\ m.val \notin {"MSGTYPE_USER", "MSGTYPE_CHANNEL",
                        "MSGTYPE_BROADCAST", "MSGTYPE_CUSTOM"}
  THEN "" ELSE C9_ByKind(m)

\* C9 as stated: the chain dispatches the domain event listed for the kind
\* of the event, a text message of whatever type included, and nothing for
\* the other kinds.
C9_ListedEventForEveryKind == plast.disp = C9_ByKind(plast.msg)

\* C9: the chain dispatches exactly the domain event listed for the kind of
\* the event, a text message only when its type is user, channel, broadcast
\* or custom; it dispatches nothing for a text message of another type and
\* for the kinds not listed. The outcome is a function of the event alone,
\* so classifying the same event again gives the same outcome.
C9_ClassificationTable == plast.disp = C9_ByKindAndType(plast.msg)

\* a text message of no listed type went through the chain
C9_Witness ==
  /\ plast.msg.kind = "CMD_USER_TEXTMSG"
  /\ plast.msg.val = "MSGTYPE_NONE"
  /\ plast.disp = ""
  /\ plast.side = "log_unhandled"

RECURSIVE LastRegistered(_, _)
\* the coroutine passed last for `name` among the first k calls of event
LastRegistered(name, k) ==
  IF k = 0 THEN "unset"
  ELSE IF reglog[k].name = name /\ reglog[k].coro \in Coroutines
       THEN reglog[k].coro
       ELSE LastRegistered(name, k - 1)

C10_Registry ==
  /\ \A a \in AttrNames :
       attrs[a] = IF LastRegistered(a, Len(reglog)) = "unset"
                  THEN InitAttrs[a] ELSE LastRegistered(a, Len(reglog))
  /\ \A i \in 1..Len(created) :
       /\ created[i].coro \in Coroutines
       /\ created[i].coro = LastRegistered(created[i].name, created[i].regs)
  /\ \A i, j \in 1..Len(created) :
       (i # j /\ created[i].args.n > 0) => created[i].args # created[j].args

C10_Step ==
  /\ (reglog' # reglog /\ reglog'[Len(reglog')].coro \notin Coroutines) =>
       (attrs' = attrs /\ regout' = "TypeError")
  /\ (reglog' # reglog /\ reglog'[Len(reglog')].coro \in Coroutines) =>
       regout' = "ok"
  /\ plast' # plast =>
       created' = created \o
         (IF plast'.disp = "" THEN << >>
          ELSE IF LastRegistered(MethodOf[plast'.disp], Len(reglog)) = "unset"
               THEN << >>
               ELSE << [name |-> MethodOf[plast'.disp],
                        coro |-> LastRegistered(MethodOf[plast'.disp],
                                                Len(reglog)),
                        args |-> plast'.msg, regs |-> Len(reglog)] >>)

C11_NoHandlerAfterTeardown ==
  /\ conn = "closed" => mainpc = "done"
  /\ teardown # NoTeardown =>
       /\ Len(created) = teardown.created
       /\ Len(started) = teardown.started

\* C12: with two connections, a Correlator wait in progress on the first
\* does not block the second: an event queued on the second connection is
\* polled by the next pass of the loop, so it never stays queued for as long
\* as a command wait lasts (the clock advances only while a wait blocks).
C12_OtherConnectionPolled ==
  queue2 # << >> => now - since2 < CmdTimeout

\* C13: at most one reader pulls from the connection's queue: a pass of the
\* Dispatcher (_start holding the thread for _process_events) and a
\* Correlator wait are never both active, and from the issue of a command
\* to the return of its operation no step of the Dispatcher happens, so
\* the Dispatcher cannot consume the command's completion event.
C13_OneReader == ~(wfn # "none" /\ mainpc = "run")

C13_Step ==
  (wfn # "none" \/ (op # "none" /\ opres \in CmdIds /\ opout = "")) =>
     /\ plast' = plast
     /\ mainpc' = mainpc
     /\ created' = created

C13_SingleReader == [] C13_OneReader /\ [][C13_Step]_vars

\* a wait of a handler's command has read the completion of its command
\* itself, the loop of _start being due for its next pass
C13_Witness ==
  /\ running # NoTask /\ wfn = "waitForCmd" /\ wpc = "done"
  /\ wret.ok /\ wret.val.src = wcmdid
  /\ mainpc = "queued"

\* the enumeration that produced the result event numbered n
OriginOf(n) == (CHOOSE o \in origin : o.n = n).call

\* the enumeration the last call of the kind triggered, 0 if none
LastCall(kind) ==
  LET S == {i \in DOMAIN calls : calls[i].kind = kind}
  IN IF S = {} THEN 0 ELSE CHOOSE i \in S : \A j \in S : j <= i

\* C14: list_user_accounts and list_banned_users clear their accumulator
\* right before the native enumeration call, and the accumulator is empty
\* from that clear until the first result event of that call is appended:
\* whenever it is not empty, its first entry is a result of the enumeration
\* the last call triggered.
C14_EmptyUntilOwnResult ==
  \A kind \in {"accounts", "bans"} :
    (LastCall(kind) # 0 /\ Accumulator(kind) # << >>) =>
       OriginOf(Accumulator(kind)[1]) = LastCall(kind)

RECURSIVE SeqToSet(_)
SeqToSet(s) == IF s = << >> THEN {} ELSE {Head(s)} \cup SeqToSet(Tail(s))

\* C15: the list a call of list_user_accounts or list_banned_users returns
\* holds only results of the enumeration that this call triggered, for any
\* interleaving of two calls with the arrival of their result events.
C15_OnlyOwnResults ==
  \A i \in DOMAIN calls :
    calls[i].state = "returned" =>
      \A n \in SeqToSet(calls[i].ret) : OriginOf(n) = i

\* C16: list_user_accounts returns all user accounts: every result event
\* the enumeration of a call produced is in the list the call returned,
\* whenever the events arrive.
C16_AllResultsReturned ==
  \A i \in DOMAIN calls :
    (calls[i].state = "returned" /\ calls[i].kind = "accounts") =>
      \A o \in origin : o.call = i => o.n \in SeqToSet(calls[i].ret)

\* C17: for every command-issuing operation, a command error with the
\* operation's correlation id and the code "not authorized" makes the
\* operation raise PermissionError: an operation whose wait returned that
\* error raises it, and kick_user and ban_user, having issued their
\* command, do not return before its completion was read.
C17_Step ==
  /\ (/\ op \in CommandOps /\ wpc = "done"
      /\ ~wret.ok /\ wret.val.kind = "ClientErrorMsg"
      /\ wret.val.val = "CMDERR_NOT_AUTHORIZED")
       => opout' = "PermissionError"
  /\ (/\ op = "none" /\ op' \in {"kick_user_channel", "ban_user"}
      /\ opres' \in CmdIds)
       => opout' = ""

C17_NotAuthorizedSurfaced == [][C17_Step]_vars

\* C18: create_channel, delete_channel, create_user_account and
\* delete_user_account return True only if _waitForCmd returned the
\* command-success event with the command's correlation id; after a timeout
\* or a command error of any code they raise or return False.
C18_Step ==
  (/\ op \in {"create_channel", "delete_channel", "create_user_account",
              "delete_user_account"}
   /\ opout = "" /\ opout' = "True")
    => /\ wpc = "done" /\ wret.ok
       /\ wret.val.kind = "CMD_SUCCESS" /\ wret.val.src = opres

C18_TrueOnlyOnSuccess == [][C18_Step]_vars

\* a handler is suspended in an await
Suspended(i) == i \in DOMAIN calls /\ calls[i].state = "sleeping"

\* C19: every pass of the loop of _start ends in its sleep, whether or not
\* a handler was registered or scheduled, and the loop does not wait for a
\* handler to complete: while handlers are suspended in an await and no
\* task holds the thread, the next step of the loop (the end of its sleep,
\* its resumption, its poll) is enabled, so later events are polled and
\* their handlers scheduled.
C19_LoopEnabled ==
  /\ mainpc = "run" => ENABLED process_events
  /\ (mainpc = "sleep" /\ running = NoTask) => ENABLED WakeMain
  /\ (mainpc = "queued" /\ running = NoTask) => ENABLED run_next

C19_Step ==
  (mainpc = "run" /\ mainpc' # "run") =>
     /\ mainpc' = "sleep"
     /\ started' = started
     /\ calls' = calls

C19_LoopDoesNotWaitForHandlers == [] C19_LoopEnabled /\ [][C19_Step]_vars

\* while a handler is suspended in its await, an event queued after a
\* result of that handler's enumeration has been polled and its own handler
\* has started
C19_Witness ==
  \E i \in DOMAIN calls, k \in DOMAIN started, o \in origin :
    /\ Suspended(i)
    /\ o.call = i
    /\ started[k].args.n > o.n

\* C20: one call of _process_events performs one poll: it takes the head
\* of the connection's queue, or nothing from an empty queue, and leaves
\* the rest queued; it creates no handler task or one.
C20_Step ==
  (mainpc = "run" /\ mainpc' = "sleep") =>
     /\ queue' = IF queue = << >> THEN << >> ELSE Tail(queue)
     /\ plast'.msg = IF queue = << >> THEN TTMessage ELSE Head(queue)
     /\ \/ created' = created
        \/ /\ Len(created') = Len(created) + 1
           /\ created'[Len(created')].args = plast'.msg

C20_OnePollPerTick == [][C20_Step]_vars

\* a pass has polled an event and scheduled its handler while another
\* event stays queued
C20_Witness ==
  /\ mainpc = "sleep"
  /\ plast.msg.n > 0 /\ plast.disp # ""
  /\ created # << >> /\ created[Len(created)].args = plast.msg
  /\ queue # << >>

\* C21: connect() returns True exactly when its wait read a
\* connection-success event; returning True it has dispatched my_connect
\* once and set connected; returning False (native connect refused, or the
\* wait timed out) it leaves connected alone and dispatches nothing.
\* login() does the same with the logged-in event, my_login and logged_in.
C21_Returns(o, awaited, name) ==
  /\ (op = "none" /\ op' = o /\ opout' # "") =>
       /\ opout' = "False"
       /\ connected' = connected /\ logged_in' = logged_in
       /\ cdisp' = cdisp
  /\ (op = o /\ op' = o /\ wfn # "none" /\ opout = "" /\ opout' # "") =>
       /\ opout' \in {"True", "False"}
       /\ opout' = "True" <=> wmsg.kind = awaited
       /\ opout' = "True" =>
            /\ cdisp' = Append(cdisp, name)
            /\ IF o = "connect" THEN connected' /\ logged_in' = logged_in
               ELSE logged_in' /\ connected' = connected
       /\ opout' = "False" =>
            /\ cdisp' = cdisp
            /\ connected' = connected /\ logged_in' = logged_in

C21_Step ==
  /\ C21_Returns("connect", "CON_SUCCESS", "my_connect")
  /\ C21_Returns("login", "CMD_MYSELF_LOGGEDIN", "my_login")

C21_ConnectLoginContract == [][C21_Step]_vars

\* connect() and then login() have returned True
C21_Witness ==
  /\ op = "login" /\ opout = "True"
  /\ connected /\ logged_in
  /\ cdisp = <<"my_connect", "my_login">>

\* C22: with join_channel_id left at -1 a successful login through
\* add_server joins no channel; with 0 it joins the root channel; with a
\* positive id it joins that channel.
C22_JoinOnLogin ==
  (op = "login" /\ opout = "True") =>
     joined = IF join_channel_id = -1 THEN << >>
              ELSE IF join_channel_id = 0 THEN <<RootChannelID>>
              ELSE <<join_channel_id>>

\* C23: move_user raises PermissionError exactly when the bot lacks
\* MOVE_USERS (a bot that is no admin and holds MOVE_USERS without
\* KICK_USERS has the native move command issued), and ban_user likewise
\* depends on BAN_USERS alone.
C23_MoveBanPermission ==
  /\ (op = "move_user" /\ opout # "") =>
       (opout = "PermissionError" <=>
          ~has_permission(oprights, opadmin, "MOVE_USERS"))
  /\ (op = "ban_user" /\ opout # "") =>
       (opout = "PermissionError" <=>
          ~has_permission(oprights, opadmin, "BAN_USERS"))

\* C27: kick_user(user, 0) by a bot holding KICK_USERS issues the native
\* kick and completes normally; kick_user(user, channel) with another
\* channel is permitted when the bot holds KICK_USERS_FROM_CHANNEL or is
\* operator of the channel; the only errors either raises are
\* PermissionError, TypeError and ValueError.
C27_KickUser ==
  /\ (/\ op = "kick_user_server" /\ opout # ""
      /\ has_permission(oprights, opadmin, "KICK_USERS")) =>
       /\ opres # 0
       /\ opout = IF opres = -1 THEN "ValueError" ELSE "None"
  /\ (/\ op = "kick_user_channel" /\ opout # ""
      /\ (has_permission(oprights, opadmin, "KICK_USERS_FROM_CHANNEL")
            \/ opisop)) =>
       opout # "PermissionError"
  /\ (op \in {"kick_user_server", "kick_user_channel"} /\ opout # "") =>
       opout \in {"None", "PermissionError", "TypeError", "ValueError"}

\* C24: _get_tt_obj_attribute(obj, attr) builds the CamelCase name of
\* attr (each "_"-separated part capitalised, a part equal to "id"
\* becoming "ID"), looks for n<Name>, sz<Name>, b<Name>, u<Name> and the
\* name with its first letter lowered, in that order, returns the value of
\* the first of them that exists on obj, and raises AttributeError when
\* none of them exists.
C24_Candidates ==
  Prefixed(Name(gattr))
    \o <<IF Name(gattr) = << >> THEN << >> ELSE LowerFirst(Name(gattr))>>

C24_First ==
  CHOOSE k \in 1..5 :
    /\ C24_Candidates[k] \in gobj
    /\ \A j \in 1..(k - 1) : C24_Candidates[j] \notin gobj

C24_ProbeOrder ==
  gres # NoResult =>
    IF \E k \in 1..5 : C24_Candidates[k] \in gobj
      THEN gres = Returned(C24_Candidates[C24_First])
      ELSE gres = Raised("AttributeError")

\* C25: a user-state-changed event is never dispatched to a handler and
\* toggles the audio-block subscription of the user: state 1 enables it,
\* state 0 disables it.
C25_StateChangeToggles ==
  plast.msg.kind = "USER_STATECHANGE" =>
    /\ plast.disp = ""
    /\ plast.msg.val = "1" => plast.side = "enable_user"
    /\ plast.msg.val = "0" => plast.side = "disable_user"

\* the kinds _process_events has a branch for
C26_Matched ==
  {"USER_STATECHANGE", "CMD_USER_JOINED", "USER_FIRSTVOICESTREAMPACKET",
   "CMD_USER_LEFT", "NONE", "CMD_USER_TEXTMSG", "CMD_USER_LOGGEDIN",
   "CMD_USER_LOGGEDOUT", "CMD_USER_UPDATE", "CMD_CHANNEL_NEW",
   "CMD_CHANNEL_UPDATE", "CMD_CHANNEL_REMOVE", "CMD_SERVER_UPDATE",
   "CMD_SERVERSTATISTICS", "CMD_FILE_NEW", "CMD_FILE_REMOVE",
   "CMD_MYSELF_KICKED", "CMD_USERACCOUNT", "CMD_BANNEDUSER", "CON_LOST"}

C28_ReadsOwnError ==
  /\ wfn = "waitForCmdSuccess"
  /\ wpc \in {"first", "loop"}
  /\ queue # << >>
  /\ Head(queue).kind = "CMD_ERROR"
  /\ Head(queue).src = wcmdid
  /\ queue' = Tail(queue)

\* the deadline of the _waitForEvent call that made the read
C28_End == IF wpc = "first" THEN now + wtimeout ELSE wend

C28_Step ==
  C28_ReadsOwnError =>
    \/ wpc' = "loop" /\ wret' = wret /\ now < C28_End
    \/ wpc' = "done" /\ wret' = [ok |-> FALSE, val |-> TTMessage]
         /\ now >= C28_End

C28_Returned ==
  (wfn = "waitForCmdSuccess" /\ wpc = "done") =>
    IF wret.ok
      THEN wret.val.kind = "CMD_SUCCESS" /\ wret.val.src = wcmdid
      ELSE wret.val = TTMessage /\ now >= wend

\* C28: in _waitForCmdSuccess(cmdid, T) a command error carrying cmdid does
\* not end the wait: the event is discarded and the call goes on waiting,
\* unless the deadline of the wait has passed; the call returns True only
\* with a command success carrying cmdid, and False only at a timeout,
\* with an empty message.
C28_OwnErrorNotTerminal == [] C28_Returned /\ [][C28_Step]_vars

\* a command error carrying the awaited id was read and the call waits on
C28_Witness ==
  /\ wfn = "waitForCmdSuccess"
  /\ wpc = "loop"
  /\ wmsg.kind = "CMD_ERROR"
  /\ wmsg.src = wcmdid
  /\ now < wend

\* C29: stream(path) stops the stream that is running before the new one
\* starts: once stream(p2) has started its thread, the thread started for
\* p1 leaves its loop at its next test of the flag and feeds no further
\* block, so only the newest _stream thread goes on feeding.
C29_OldStreamStops ==
  \A t \in (1..MaxStreams) :
    (t # current_streamer_thread /\ thread_pc[t] \in {"read", "feed"}) =>
      t \notin refed

\* C30: set_input_device changes the stored input device id only through
\* an initialisation: after a successful one
\* get_current_input_device_id() is the new id, after a failed one it is
\* -1, and a call that returns False before the initialisation or raises
\* ValueError leaves the stored id and the open device as they were.
C30_StoredIdFollowsInit ==
  devcall # NoDevCall =>
    /\ (devcall.inited /\ devcall.result = "True") =>
         get_current_input_device_id = devcall.target
    /\ (devcall.inited /\ devcall.result = "False") =>
         get_current_input_device_id = -1
    /\ ~devcall.inited =>
         /\ devcall.result \in {"False", "ValueError"}
         /\ get_current_input_device_id = devcall.id_before
         /\ open_device = devcall.open_before
    /\ devcall.inited <=>
         ~(IsDefault(devcall.arg) \/ IntOf(devcall.arg).err # "")
           \/ (IsDefault(devcall.arg) /\ devcall.target >= 0)

\* with a device open and stored, a call for the default device ended
\* before the initialisation
C30_Witness ==
  /\ devcall.result = "False"
  /\ ~devcall.inited
  /\ IsDefault(devcall.arg)
  /\ devcall.id_before \in Devices
  /\ current_input_device_id = devcall.id_before
  /\ open_device = devcall.open_before
  /\ open_device \in Devices

\* C33: add_server goes connect -> login -> poll: login is attempted only
\* after connect succeeded, and an instance is appended to teamtalks only
\* if connect and login both returned True, so every instance the loop
\* polls was connected and logged in when it was appended.
C33_AddedAfterConnectAndLogin ==
  /\ op = "login" => connected
  /\ \A k \in 1..Len(teamtalks) :
       teamtalks[k].connected /\ teamtalks[k].logged_in

\* C31: after any sequence of connect, login, logout and disconnect calls
\* on an instance, logged_in is True only if connected is True.
C31_LoggedInOnlyIfConnected == NoCall => (logged_in => connected)

\* _process_events classifies a connection-lost event and dispatches
\* my_connection_lost
C32_Lost ==
  /\ plast' # plast
  /\ plast'.msg.kind = "CON_LOST"
  /\ plast'.disp = "my_connection_lost"

C32_Step == C32_Lost => (~connected' /\ ~logged_in')

\* C32: the flags follow the connection: once a connection-lost event has
\* been classified and my_connection_lost dispatched for an instance, its
\* connected and logged_in flags are False.
C32_FlagsFollowConnection == [][C32_Step]_vars

RECURSIVE Flatten(_)
\* the concatenation of the blocks of a list
Flatten(q) == IF q = << >> THEN << >> ELSE Head(q) \o Flatten(Tail(q))

\* C34: feed conserves data: the blocks it has enqueued, concatenated, and
\* then the residual current_data are all the data fed, in order, no byte
\* enqueued twice and none dropped; every enqueued block has at most
\* block_size bytes.
C34_FeedConservesData ==
  /\ Flatten(enq) \o current_data = fed
  /\ \A k \in 1..Len(enq) : Len(enq[k]) <= BlockSize

\* C35: every block feed appended to blocks is passed to the native
\* insertion exactly once and in FIFO order, whatever the interleaving of
\* the feeding thread with _do_stream: the blocks inserted are the first
\* blocks appended, and between two passes of _do_stream the blocks
\* inserted and the blocks waiting are all the blocks appended.
C35_EveryBlockInsertedOnce ==
  /\ Len(inserted) <= Len(enq)
  /\ inserted = SubSeq(enq, 1, Len(inserted))
  /\ do_stream_pc = "check" => inserted \o blocks = enq

\* C36: after any sequence of get_streamer_for_channel calls there is at
\* most one Streamer for a channel: two calls made with channel objects of
\* the same channel id of the instance return the same Streamer.
C36_OneStreamerPerChannel ==
  /\ \A a, b \in audio_streamers :
       channel_objs[a] = channel_objs[b] => a = b
  /\ \A i, j \in 1..Len(got) :
       got[i].id = got[j].id => got[i].streamer = got[j].streamer

\* C37: messages handed to _send_message with the same delay are passed to
\* the native send call in the order of the calls of _send_message, each
\* of them once, whatever the interleaving of the timer threads.
C37_SentInCallOrder ==
  /\ \A i, j \in 1..Len(sent) :
       (i < j /\ sent[i].delay = sent[j].delay) => sent[i].msg < sent[j].msg
  /\ \A i, j \in 1..Len(sent) : sent[i].msg = sent[j].msg => i = j

=============================================================================
